---- MODULE Spec2Model ----
(***************************************************************************)
(* A model of the token-level diff engine (utils/diff.js), of the diff     *)
(* renderers of the task pane (formatDiff, formatDiffHtml), of the clause  *)
(* segmenter and the streaming review handler of the review server         *)
(* (splitIntoClauses, POST /api/review-stream), and of the task pane's     *)
(* live-analysis and chat handlers (handleLiveAnalysis, handleSendChat).   *)
(*                                                                         *)
(* Strings are sequences of one-character strings.  JavaScript arrays are  *)
(* 0-based; the loop indices i and j keep their 0-based values and a       *)
(* sequence element is read as left[i + 1].                                *)
(***************************************************************************)
EXTENDS Integers, Sequences, FiniteSets, TLC

VARIABLES
    pc,          \* position in the function being executed
    original,    \* diffTokens: first argument
    revised,     \* diffTokens: second argument
    maxCells,    \* diffTokens: third argument
    left,        \* diffTokens: tokenize(original)
    right,       \* diffTokens: tokenize(revised)
    dp,          \* diffTokens: the LCS table, dp[i][j] over 0..left.length, 0..right.length
    segments,    \* diffTokens: the unmerged segment list of the forward walk
    i,           \* diffTokens: index into left (0-based)
    j,           \* diffTokens: index into right (0-based)
    result,      \* diffTokens: the returned value
    text,        \* splitIntoClauses: the argument
    normalized,  \* splitIntoClauses: text with line endings normalized
    rawClauses,  \* splitIntoClauses: the pieces of the splitting cascade
    clauses,     \* splitIntoClauses: the clauses emitted so far
    buffer,      \* splitIntoClauses: the coalescing buffer
    next,        \* splitIntoClauses: number of rawClauses the for-of loop has consumed
    caller,          \* task pane: the function that renders the diff
    binding,         \* task pane: the function the name formatDiffHtml resolves to
    position,        \* formatDiffHtml: number of segments the for-of loop has consumed
    regions,         \* formatDiffHtml: the regions pushed so far
    pendingDeletes,  \* formatDiffHtml: accumulator of deleted text
    pendingInserts,  \* formatDiffHtml: accumulator of inserted text
    output,          \* the string a renderer returned
    body,            \* /api/review-stream: the kind of value req.body.text holds
    events,          \* /api/review-stream: the events written to the response, in order
    clauseIndex,     \* /api/review-stream: the loop index i
    issueIndex,      \* /api/review-stream: issueIndex, also allIssues.length
    llmRequests,     \* /api/review-stream: analyzeClause calls awaiting their result
    ended,           \* /api/review-stream: res.end() has been called
    trackChanges,    \* task pane: state.trackChanges
    isAnalyzing,     \* task pane: state.isAnalyzing
    issues,          \* task pane: state.issues, each issue named by the invocation that pushed it
    live,            \* handleLiveAnalysis: where each invocation stands
    overlapped,      \* handleLiveAnalysis: the invocations that began while another had not finished
    clearedBy,       \* handleLiveAnalysis: how often each invocation has reset state.issues
    sentBy,          \* handleLiveAnalysis: how many requests each invocation has sent
    hasEndpoint,     \* task pane: state.endpoint is set
    isChatLoading,   \* task pane: state.isChatLoading
    chatMessages,    \* task pane: state.chatMessages
    chat,            \* handleSendChat: where each invocation stands
    chatInput,       \* handleSendChat: dom.chatInput.value, trimmed, at each invocation
    chatRequests,    \* handleSendChat: the calls of sendChatMessage, with their history
    confirmations    \* applyChatSuggestion: the messages it has pushed

diffVars == <<original, revised, maxCells, left, right, dp, segments, i, j, result>>

segVars == <<text, normalized, rawClauses, clauses, buffer, next>>

renderVars == <<caller, binding, position, regions, pendingDeletes, pendingInserts, output>>

streamVars == <<body, events, clauseIndex, issueIndex, llmRequests, ended>>

liveVars == <<trackChanges, isAnalyzing, issues, live, overlapped, clearedBy, sentBy>>

chatVars == <<hasEndpoint, isChatLoading, chatMessages, chat, chatInput, chatRequests, confirmations>>

paneVars == <<liveVars, chatVars>>

appVars == <<streamVars, paneVars>>

vars == <<pc, diffVars, segVars, renderVars, appVars>>

----------------------------------------------------------------------------
(* Characters and strings *)

\* The characters /\s/ matches among those the model uses.
Whitespace == {" ", "\n", "\r", "\t"}

IsSpace(c) == c \in Whitespace

\* All strings over the alphabet A of length at most n.
StringsUpTo(A, n) == UNION {[1..k -> A] : k \in 0..n}

\* The concatenation of a sequence of strings, in order (Array.prototype.join("")).
RECURSIVE Concat(_)
Concat(ss) == IF ss = <<>> THEN <<>> ELSE Head(ss) \o Concat(Tail(ss))

----------------------------------------------------------------------------
(* Bounds of the model and inputs *)

MaxLenOriginal == 3

MaxLenRevised == 5

SmallBudget == 2

DefaultMaxCells == 120000

DiffAlphabet == {"a", "b", " "}

ScenarioOriginal ==
    <<"A","l","i","c","e",".","\n","\n","B","o","b"," ","r","u","n","s"," ",
      "f","a","s","t",".">>

ScenarioRevised ==
    <<"A","l","i","c","e",".","\n","\n","B","o","b"," ","r","u","n","s"," ",
      "v","e","r","y"," ","f","a","s","t",".">>

DiffInputs ==
    (StringsUpTo(DiffAlphabet, MaxLenOriginal) \X StringsUpTo(DiffAlphabet, MaxLenRevised))
        \cup {<<ScenarioOriginal, ScenarioRevised>>}

Budgets == {0, SmallBudget, DefaultMaxCells}

----------------------------------------------------------------------------
(* utils/diff.js *)

\* The length of the longest prefix of s whose characters are all whitespace
\* (ws = TRUE) or all non-whitespace (ws = FALSE): one greedy match of \s+ or \S+.
RECURSIVE RunLength(_, _)
RunLength(s, ws) ==
    IF s = <<>> \/ IsSpace(Head(s)) # ws THEN 0 ELSE 1 + RunLength(Tail(s), ws)

TokenizeWordsOnly(str) ==
    LET RECURSIVE Scan(_)
        Scan(s) ==
            IF s = <<>> THEN <<>>
            ELSE LET n == RunLength(s, IsSpace(Head(s)))
                 IN  IF IsSpace(Head(s))
                       THEN Scan(SubSeq(s, n + 1, Len(s)))
                       ELSE <<SubSeq(s, 1, n)>> \o Scan(SubSeq(s, n + 1, Len(s)))
    IN  Scan(str)

TokenizePerCharacter(str) == [k \in 1..Len(str) |-> <<str[k]>>]

\* text.match(/\s+|\S+/g) ?? []: the successive maximal runs, left to right.
\* A match starts at the first character and wherever the class of the
\* character differs from that of the one before; it ends before the next start.
tokenize(str) ==
    LET starts == {p \in 1..Len(str) : p = 1 \/ IsSpace(str[p]) # IsSpace(str[p - 1])}
        count == Cardinality(starts)
        rank == [p \in starts |-> Cardinality({q \in starts : q <= p})]
        startOf == [k \in 1..count |-> CHOOSE p \in starts : rank[p] = k]
        endOf(k) == IF k = count THEN Len(str) ELSE startOf[k + 1] - 1
    IN  [k \in 1..count |-> SubSeq(str, startOf[k], endOf(k))]

Seg(type, str) == [type |-> type, text |-> str]

mergeSegmentsNoMerge(segs) == segs

mergeSegmentsOverwrite(segs) ==
    LET RECURSIVE Fold(_, _)
        Fold(merged, k) ==
            IF k > Len(segs) THEN merged
            ELSE LET prev == merged[Len(merged)]
                     current == segs[k]
                 IN  IF prev.type = current.type
                       THEN Fold([merged EXCEPT ![Len(merged)].text = current.text], k + 1)
                       ELSE Fold(Append(merged, current), k + 1)
    IN  IF segs = <<>> THEN <<>> ELSE Fold(<<segs[1]>>, 2)

\* mergeSegments: fold adjacent segments of one type into the previous one.
mergeSegments(segs) ==
    LET RECURSIVE Fold(_, _)
        Fold(merged, k) ==
            IF k > Len(segs) THEN merged
            ELSE LET prev == merged[Len(merged)]
                     current == segs[k]
                 IN  IF prev.type = current.type
                       THEN Fold([merged EXCEPT ![Len(merged)].text = @ \o current.text], k + 1)
                       ELSE Fold(Append(merged, current), k + 1)
    IN  IF segs = <<>> THEN <<>> ELSE Fold(<<segs[1]>>, 2)

Max(x, y) == IF x >= y THEN x ELSE y

FillTableNoIncrement(l, r) ==
    LET zero == [row \in 0..Len(l) |-> [col \in 0..Len(r) |-> 0]]
        RECURSIVE Cell(_, _, _)
        Cell(t, row, col) ==
            IF row < 0 THEN t
            ELSE IF col < 0 THEN Cell(t, row - 1, Len(r) - 1)
            ELSE LET v == IF l[row + 1] = r[col + 1]
                            THEN t[row + 1][col + 1]
                            ELSE Max(t[row + 1][col], t[row][col + 1])
                 IN  Cell([t EXCEPT ![row][col] = v], row, col - 1)
    IN  Cell(zero, Len(l) - 1, Len(r) - 1)

\* The nested loops that fill dp, from the last row and column backwards.
FillTable(l, r) ==
    LET zero == [row \in 0..Len(l) |-> [col \in 0..Len(r) |-> 0]]
        RECURSIVE Cell(_, _, _)
        Cell(t, row, col) ==
            IF row < 0 THEN t
            ELSE IF col < 0 THEN Cell(t, row - 1, Len(r) - 1)
            ELSE LET v == IF l[row + 1] = r[col + 1]
                            THEN t[row + 1][col + 1] + 1
                            ELSE Max(t[row + 1][col], t[row][col + 1])
                 IN  Cell([t EXCEPT ![row][col] = v], row, col - 1)
    IN  Cell(zero, Len(l) - 1, Len(r) - 1)

\* The two values diffTokens can return.
Skipped == [isNull |-> TRUE, segments |-> <<>>]

SegmentList(segs) == [isNull |-> FALSE, segments |-> segs]

NoTable == <<>>

\* No request has reached the review server.
StreamIdle ==
    /\ body = "none"
    /\ events = <<>>
    /\ clauseIndex = 0
    /\ issueIndex = 0
    /\ llmRequests = 0
    /\ ended = FALSE

\* The task pane as it is loaded (the state object, lines 7-31): no handler
\* has been invoked.
PaneIdle ==
    /\ trackChanges = TRUE
    /\ isAnalyzing = FALSE
    /\ issues = <<>>
    /\ live = <<>>
    /\ overlapped = {}
    /\ clearedBy = <<>>
    /\ sentBy = <<>>
    /\ hasEndpoint = FALSE
    /\ isChatLoading = FALSE
    /\ chatMessages = <<>>
    /\ chat = <<>>
    /\ chatInput = <<>>
    /\ chatRequests = <<>>
    /\ confirmations = 0

AppIdle == StreamIdle /\ PaneIdle

\* No renderer has been called.
RenderIdle ==
    /\ caller = "none"
    /\ binding = "unresolved"
    /\ position = 0
    /\ regions = <<>>
    /\ pendingDeletes = <<>>
    /\ pendingInserts = <<>>
    /\ output = <<>>

DiffInit ==
    /\ pc = "diffTokens"
    /\ \E in \in DiffInputs : original = in[1] /\ revised = in[2]
    /\ maxCells \in Budgets
    /\ left = <<>>
    /\ right = <<>>
    /\ dp = NoTable
    /\ segments = <<>>
    /\ i = 0
    /\ j = 0
    /\ result = Skipped
    /\ text = <<>>
    /\ normalized = <<>>
    /\ rawClauses = <<>>
    /\ clauses = <<>>
    /\ buffer = <<>>
    /\ next = 0
    /\ RenderIdle
    /\ AppIdle

OverBudgetInclusive(l, r, cells) == Len(l) * Len(r) >= cells

\* The condition of the if at line 13.
OverBudget(l, r, cells) == Len(l) * Len(r) > cells

\* lines 6-7
Tokenize ==
    /\ pc = "diffTokens"
    /\ left' = tokenize(original)
    /\ right' = tokenize(revised)
    /\ pc' = "guards"
    /\ UNCHANGED <<original, revised, maxCells, dp, segments, i, j, result>>
    /\ UNCHANGED segVars
    /\ UNCHANGED appVars
    /\ UNCHANGED renderVars

\* lines 9-11
ReturnEmpty ==
    /\ pc = "guards"
    /\ Len(left) = 0 /\ Len(right) = 0
    /\ result' = SegmentList(<<>>)
    /\ pc' = "returned"
    /\ UNCHANGED <<original, revised, maxCells, left, right, dp, segments, i, j>>
    /\ UNCHANGED segVars
    /\ UNCHANGED appVars
    /\ UNCHANGED renderVars

\* lines 13-15
ReturnSkipped ==
    /\ pc = "guards"
    /\ ~(Len(left) = 0 /\ Len(right) = 0)
    /\ OverBudget(left, right, maxCells)
    /\ result' = Skipped
    /\ pc' = "returned"
    /\ UNCHANGED <<original, revised, maxCells, left, right, dp, segments, i, j>>
    /\ UNCHANGED segVars
    /\ UNCHANGED appVars
    /\ UNCHANGED renderVars

\* lines 17-33
BuildTable ==
    /\ pc = "guards"
    /\ ~(Len(left) = 0 /\ Len(right) = 0)
    /\ ~OverBudget(left, right, maxCells)
    /\ dp' = FillTable(left, right)
    /\ segments' = <<>>
    /\ i' = 0
    /\ j' = 0
    /\ pc' = "walk"
    /\ UNCHANGED <<original, revised, maxCells, left, right, result>>
    /\ UNCHANGED segVars
    /\ UNCHANGED appVars
    /\ UNCHANGED renderVars

PreferDeleteSwapped(t, row, col) == t[row][col + 1] >= t[row + 1][col]

PreferDeleteStrict(t, row, col) == t[row + 1][col] > t[row][col + 1]

\* The condition of the else-if at line 40.
PreferDelete(t, row, col) == t[row + 1][col] >= t[row][col + 1]

\* lines 35-39
WalkEqual ==
    /\ pc = "walk"
    /\ i < Len(left) /\ j < Len(right)
    /\ left[i + 1] = right[j + 1]
    /\ segments' = Append(segments, Seg("equal", left[i + 1]))
    /\ i' = i + 1
    /\ j' = j + 1
    /\ UNCHANGED <<pc, original, revised, maxCells, left, right, dp, result>>
    /\ UNCHANGED segVars
    /\ UNCHANGED appVars
    /\ UNCHANGED renderVars

\* lines 40-42
WalkDelete ==
    /\ pc = "walk"
    /\ i < Len(left) /\ j < Len(right)
    /\ left[i + 1] # right[j + 1]
    /\ PreferDelete(dp, i, j)
    /\ segments' = Append(segments, Seg("delete", left[i + 1]))
    /\ i' = i + 1
    /\ UNCHANGED <<pc, original, revised, maxCells, left, right, dp, j, result>>
    /\ UNCHANGED segVars
    /\ UNCHANGED appVars
    /\ UNCHANGED renderVars

WalkInsertLeftToken ==
    /\ pc = "walk"
    /\ i < Len(left) /\ j < Len(right)
    /\ left[i + 1] # right[j + 1]
    /\ ~PreferDelete(dp, i, j)
    /\ segments' = Append(segments, Seg("insert", left[i + 1]))
    /\ j' = j + 1
    /\ UNCHANGED <<pc, original, revised, maxCells, left, right, dp, i, result>>
    /\ UNCHANGED segVars
    /\ UNCHANGED appVars
    /\ UNCHANGED renderVars

\* lines 43-46
WalkInsert ==
    /\ pc = "walk"
    /\ i < Len(left) /\ j < Len(right)
    /\ left[i + 1] # right[j + 1]
    /\ ~PreferDelete(dp, i, j)
    /\ segments' = Append(segments, Seg("insert", right[j + 1]))
    /\ j' = j + 1
    /\ UNCHANGED <<pc, original, revised, maxCells, left, right, dp, i, result>>
    /\ UNCHANGED segVars
    /\ UNCHANGED appVars
    /\ UNCHANGED renderVars

\* lines 49-52
FlushDelete ==
    /\ pc = "walk"
    /\ ~(i < Len(left) /\ j < Len(right))
    /\ i < Len(left)
    /\ segments' = Append(segments, Seg("delete", left[i + 1]))
    /\ i' = i + 1
    /\ UNCHANGED <<pc, original, revised, maxCells, left, right, dp, j, result>>
    /\ UNCHANGED segVars
    /\ UNCHANGED appVars
    /\ UNCHANGED renderVars

\* lines 54-57
FlushInsert ==
    /\ pc = "walk"
    /\ ~(i < Len(left) /\ j < Len(right))
    /\ ~(i < Len(left))
    /\ j < Len(right)
    /\ segments' = Append(segments, Seg("insert", right[j + 1]))
    /\ j' = j + 1
    /\ UNCHANGED <<pc, original, revised, maxCells, left, right, dp, i, result>>
    /\ UNCHANGED segVars
    /\ UNCHANGED appVars
    /\ UNCHANGED renderVars

\* line 59
ReturnMerged ==
    /\ pc = "walk"
    /\ ~(i < Len(left)) /\ ~(j < Len(right))
    /\ result' = SegmentList(mergeSegments(segments))
    /\ pc' = "returned"
    /\ UNCHANGED <<original, revised, maxCells, left, right, dp, segments, i, j>>
    /\ UNCHANGED segVars
    /\ UNCHANGED appVars
    /\ UNCHANGED renderVars

Init == DiffInit

Next ==
    \/ Tokenize
    \/ ReturnEmpty
    \/ ReturnSkipped
    \/ BuildTable
    \/ WalkEqual
    \/ WalkDelete
    \/ WalkInsert
    \/ FlushDelete
    \/ FlushInsert
    \/ ReturnMerged

Spec == Init /\ [][Next]_vars

----------------------------------------------------------------------------
(* formatDiff (utils/diff.js) *)

\* "Diff preview skipped (selection too large)."
SkippedNotice ==
    <<"D", "i", "f", "f", " ", "p", "r", "e", "v", "i", "e", "w", " ", "s",
      "k", "i", "p", "p", "e", "d", " ", "(", "s", "e", "l", "e", "c", "t",
      "i", "o", "n", " ", "t", "o", "o", " ", "l", "a", "r", "g", "e", ")",
      ".">>

DeleteOpen == <<"[", "-">>

DeleteClose == <<"-", "]">>

InsertOpen == <<"[", "+">>

InsertClose == <<"+", "]">>

formatDiffSwappedMarkers(res) ==
    IF res.isNull THEN SkippedNotice
    ELSE LET piece(sg) ==
                 IF sg.type = "equal" THEN sg.text
                 ELSE IF sg.type = "delete" THEN InsertOpen \o sg.text \o InsertClose
                 ELSE DeleteOpen \o sg.text \o DeleteClose
         IN  Concat([k \in 1..Len(res.segments) |-> piece(res.segments[k])])

\* lines 83-99: the placeholder for null, else segments.map(...).join("")
formatDiff(res) ==
    IF res.isNull THEN SkippedNotice
    ELSE LET piece(sg) ==
                 IF sg.type = "equal" THEN sg.text
                 ELSE IF sg.type = "delete" THEN DeleteOpen \o sg.text \o DeleteClose
                 ELSE InsertOpen \o sg.text \o InsertClose
         IN  Concat([k \in 1..Len(res.segments) |-> piece(res.segments[k])])

\* previewText = formatDiff(diff), applied to the value diffTokens returned
FormatPlain ==
    /\ pc = "returned"
    /\ output' = formatDiff(result)
    /\ pc' = "formatDiff"
    /\ UNCHANGED diffVars
    /\ UNCHANGED segVars
    /\ UNCHANGED appVars
    /\ UNCHANGED <<caller, binding, position, regions, pendingDeletes, pendingInserts>>

PlainNext ==
    \/ Tokenize
    \/ ReturnEmpty
    \/ ReturnSkipped
    \/ BuildTable
    \/ WalkEqual
    \/ WalkDelete
    \/ WalkInsert
    \/ FlushDelete
    \/ FlushInsert
    \/ ReturnMerged
    \/ FormatPlain

SpecPlain == DiffInit /\ [][PlainNext]_vars

----------------------------------------------------------------------------
(* splitIntoClauses (review server) *)

Digits == {"0", "1", "2", "3", "4", "5", "6", "7", "8", "9"}

Upper == {"A", "B", "C", "D", "E", "F", "G", "H", "I", "J", "K", "L", "M",
          "N", "O", "P", "Q", "R", "S", "T", "U", "V", "W", "X", "Y", "Z"}

Lower == {"a", "b", "c", "d", "e", "f", "g", "h", "i", "j", "k", "l", "m",
          "n", "o", "p", "q", "r", "s", "t", "u", "v", "w", "x", "y", "z"}

\* [a-zA-Z0-9]
Alnum == Lower \cup Upper \cup Digits

\* [.!?]
SentenceEnd == {".", "!", "?"}

MinClauseLength == 150

ShortRemainder == 100

SentenceBufferTarget == 400

SentenceFallbackLength == 500

SetMin(S) == CHOOSE x \in S : \A y \in S : x <= y

SetMax(S) == 0 - SetMin({0 - x : x \in S})

\* The index of the last character of the maximal run of characters of Class
\* that starts at p (p - 1 when s[p] is not in Class): a greedy Class*.
RunEnd(s, p, Class) ==
    LET stops == {r \in p..Len(s) : s[r] \notin Class}
    IN  IF stops = {} THEN Len(s) ELSE SetMin(stops) - 1

TrimNothing(s) == s

\* String.prototype.trim
Trim(s) ==
    LET solid == {p \in 1..Len(s) : ~IsSpace(s[p])}
    IN  IF solid = {} THEN <<>> ELSE SubSeq(s, SetMin(solid), SetMax(solid))

\* String.prototype.includes, for a one-character needle
Includes(s, c) == c \in {s[p] : p \in 1..Len(s)}

\* String.prototype.split(regex) for a regex that matches no empty string and
\* captures nothing.  matchEnd[q] is the index after the match that starts at
\* q, or 0 when the regex does not match at q.
Split(s, matchEnd) ==
    LET RECURSIVE From(_)
        From(p) ==
            LET starts == {q \in p..Len(s) : matchEnd[q] # 0}
            IN  IF starts = {} THEN <<SubSeq(s, p, Len(s))>>
                ELSE LET q == SetMin(starts)
                     IN  <<SubSeq(s, p, q - 1)>> \o From(matchEnd[q])
    IN  From(1)

\* text.replace(/\r\n/g, '\n').replace(/\r/g, '\n')
NormalizeLineEndings(t) ==
    LET crlf(p) == t[p] = "\r" /\ p < Len(t) /\ t[p + 1] = "\n"
        first == SelectSeq([p \in 1..Len(t) |-> IF crlf(p) THEN "" ELSE t[p]],
                           LAMBDA c : c # "")
    IN  [p \in 1..Len(first) |-> IF first[p] = "\r" THEN "\n" ELSE first[p]]

BlankLineEndNoSpaces(s, q) ==
    IF s[q] = "\n" /\ q < Len(s) /\ s[q + 1] = "\n" THEN q + 2 ELSE 0

\* /\n\s*\n/ at q: a newline, the longest whitespace run after it that still
\* ends in a newline.
BlankLineEnd(s, q) ==
    IF s[q] # "\n" THEN 0
    ELSE LET newlines == {m \in (q + 1)..RunEnd(s, q + 1, Whitespace) : s[m] = "\n"}
         IN  IF newlines = {} THEN 0 ELSE SetMax(newlines) + 1

\* The lookahead (?=\d+\.|\d+\)|\([a-zA-Z0-9]+\)|[A-Z]) at p.
EnumeratorAt(s, p) ==
    /\ p <= Len(s)
    /\ \/ /\ s[p] \in Digits
          /\ LET e == RunEnd(s, p, Digits)
             IN  e < Len(s) /\ s[e + 1] \in {".", ")"}
       \/ /\ s[p] = "("
          /\ p < Len(s)
          /\ s[p + 1] \in Alnum
          /\ LET e == RunEnd(s, p + 1, Alnum)
             IN  e < Len(s) /\ s[e + 1] = ")"
       \/ s[p] \in Upper

\* /\n(?=\d+\.|\d+\)|\([a-zA-Z0-9]+\)|[A-Z])/ at q
EnumeratorLineEnd(s, q) ==
    IF s[q] = "\n" /\ EnumeratorAt(s, q + 1) THEN q + 1 ELSE 0

\* /(?<=[.!?])\s+(?=[A-Z])/ at q
SentenceGapEnd(s, q) ==
    IF q > 1 /\ s[q - 1] \in SentenceEnd /\ IsSpace(s[q])
      THEN LET e == RunEnd(s, q, Whitespace)
           IN  IF e < Len(s) /\ s[e + 1] \in Upper THEN e + 1 ELSE 0
      ELSE 0

\* normalized.split(/\n\s*\n/)
SplitBlankLines(s) == Split(s, [q \in 1..Len(s) |-> BlankLineEnd(s, q)])

\* normalized.split(/\n(?=\d+\.|\d+\)|\([a-zA-Z0-9]+\)|[A-Z])/)
SplitEnumeratorLines(s) == Split(s, [q \in 1..Len(s) |-> EnumeratorLineEnd(s, q)])

\* normalized.split(/(?<=[.!?])\s+(?=[A-Z])/)
SplitSentenceGaps(s) == Split(s, [q \in 1..Len(s) |-> SentenceGapEnd(s, q)])

\* The loop of fallback 2: sentences joined by a space into buffers of at
\* least SentenceBufferTarget characters, and the remainder if it is not blank.
GroupSentences(sentences) ==
    LET RECURSIVE Loop(_, _, _)
        Loop(out, buf, k) ==
            IF k > Len(sentences)
              THEN IF Trim(buf) # <<>> THEN Append(out, buf) ELSE out
              ELSE LET b == buf \o (IF buf # <<>> THEN <<" ">> ELSE <<>>) \o sentences[k]
                   IN  IF Len(b) >= SentenceBufferTarget
                         THEN Loop(Append(out, b), <<>>, k + 1)
                         ELSE Loop(out, b, k + 1)
    IN  Loop(<<>>, <<>>, 1)

SubstantialEither(b) == Len(b) >= MinClauseLength \/ Includes(b, ".")

\* The condition of the if at line 580.
Substantial(b) == Len(b) >= MinClauseLength /\ Includes(b, ".")

ExtendedOverwrite(buf, trimmed) == trimmed

\* buffer += (buffer ? "\n\n" : "") + trimmed
Extended(buf, trimmed) ==
    buf \o (IF buf # <<>> THEN <<"\n", "\n">> ELSE <<>>) \o trimmed

(* Inputs *)

MaxParagraphs == 2

Rep(c, n) == [k \in 1..n |-> c]

Texts ==
    { <<>>,
      Rep("a", 59) \o <<".">>,
      <<"A">> \o Rep("a", MinClauseLength - 2) \o <<".">>,
      Rep("a", ShortRemainder - 1),
      <<"1", ".">> \o Rep("a", ShortRemainder - 2),
      <<"A">> \o Rep("a", SentenceBufferTarget - 2) \o <<".">> }

Separators == { <<"\n", "\n">>, <<"\n">>, <<" ">>, <<"\r", "\n", " ", "\r">> }

RECURSIVE Documents(_)
Documents(n) ==
    IF n = 1 THEN Texts
    ELSE {d \o s \o t : d \in Documents(n - 1), s \in Separators, t \in Texts}

SegInputs ==
    UNION {Documents(n) : n \in 1..MaxParagraphs}
        \cup {Rep(" ", SentenceFallbackLength + 1)}

SegInit ==
    /\ pc = "splitIntoClauses"
    /\ text \in SegInputs
    /\ normalized = <<>>
    /\ rawClauses = <<>>
    /\ clauses = <<>>
    /\ buffer = <<>>
    /\ next = 0
    /\ original = <<>>
    /\ revised = <<>>
    /\ maxCells = DefaultMaxCells
    /\ left = <<>>
    /\ right = <<>>
    /\ dp = NoTable
    /\ segments = <<>>
    /\ i = 0
    /\ j = 0
    /\ result = Skipped
    /\ RenderIdle
    /\ AppIdle

\* lines 537-544
SplitParagraphs ==
    /\ pc = "splitIntoClauses"
    /\ normalized' = NormalizeLineEndings(text)
    /\ rawClauses' = SplitBlankLines(normalized')
    /\ pc' = "fallback1"
    /\ UNCHANGED <<text, clauses, buffer, next>>
    /\ UNCHANGED diffVars
    /\ UNCHANGED appVars
    /\ UNCHANGED renderVars

SplitEnumeratorsAlways ==
    /\ pc = "fallback1"
    /\ rawClauses' = SplitEnumeratorLines(normalized)
    /\ pc' = "fallback2"
    /\ UNCHANGED <<text, normalized, clauses, buffer, next>>
    /\ UNCHANGED diffVars
    /\ UNCHANGED appVars
    /\ UNCHANGED renderVars

\* lines 547-549
SplitEnumerators ==
    /\ pc = "fallback1"
    /\ Len(rawClauses) <= 1
    /\ rawClauses' = SplitEnumeratorLines(normalized)
    /\ pc' = "fallback2"
    /\ UNCHANGED <<text, normalized, clauses, buffer, next>>
    /\ UNCHANGED diffVars
    /\ UNCHANGED appVars
    /\ UNCHANGED renderVars

\* line 547, condition false
KeepParagraphs ==
    /\ pc = "fallback1"
    /\ ~(Len(rawClauses) <= 1)
    /\ pc' = "fallback2"
    /\ UNCHANGED <<text, normalized, rawClauses, clauses, buffer, next>>
    /\ UNCHANGED diffVars
    /\ UNCHANGED appVars
    /\ UNCHANGED renderVars

\* lines 552-567, then 570-571
SplitSentences ==
    /\ pc = "fallback2"
    /\ Len(rawClauses) <= 1 /\ Len(normalized) > SentenceFallbackLength
    /\ rawClauses' = GroupSentences(SplitSentenceGaps(normalized))
    /\ clauses' = <<>>
    /\ buffer' = <<>>
    /\ next' = 0
    /\ pc' = "coalesce"
    /\ UNCHANGED <<text, normalized>>
    /\ UNCHANGED diffVars
    /\ UNCHANGED appVars
    /\ UNCHANGED renderVars

\* line 552, condition false, then 570-571
KeepPieces ==
    /\ pc = "fallback2"
    /\ ~(Len(rawClauses) <= 1 /\ Len(normalized) > SentenceFallbackLength)
    /\ clauses' = <<>>
    /\ buffer' = <<>>
    /\ next' = 0
    /\ pc' = "coalesce"
    /\ UNCHANGED <<text, normalized, rawClauses>>
    /\ UNCHANGED diffVars
    /\ UNCHANGED appVars
    /\ UNCHANGED renderVars

\* lines 573-575: an empty piece
CoalesceSkip ==
    /\ pc = "coalesce"
    /\ next < Len(rawClauses)
    /\ Trim(rawClauses[next + 1]) = <<>>
    /\ next' = next + 1
    /\ UNCHANGED <<pc, text, normalized, rawClauses, clauses, buffer>>
    /\ UNCHANGED diffVars
    /\ UNCHANGED appVars
    /\ UNCHANGED renderVars

\* lines 573-580: the buffer is not yet substantial
CoalesceKeep ==
    /\ pc = "coalesce"
    /\ next < Len(rawClauses)
    /\ LET trimmed == Trim(rawClauses[next + 1])
       IN  /\ trimmed # <<>>
           /\ ~Substantial(Extended(buffer, trimmed))
           /\ buffer' = Extended(buffer, trimmed)
    /\ next' = next + 1
    /\ UNCHANGED <<pc, text, normalized, rawClauses, clauses>>
    /\ UNCHANGED diffVars
    /\ UNCHANGED appVars
    /\ UNCHANGED renderVars

CoalesceEmitKeepsBuffer ==
    /\ pc = "coalesce"
    /\ next < Len(rawClauses)
    /\ LET trimmed == Trim(rawClauses[next + 1])
       IN  /\ trimmed # <<>>
           /\ Substantial(Extended(buffer, trimmed))
           /\ clauses' = Append(clauses, Extended(buffer, trimmed))
           /\ buffer' = Extended(buffer, trimmed)
    /\ next' = next + 1
    /\ UNCHANGED <<pc, text, normalized, rawClauses>>
    /\ UNCHANGED diffVars
    /\ UNCHANGED appVars
    /\ UNCHANGED renderVars

\* lines 573-583: the buffer is emitted as a clause
CoalesceEmit ==
    /\ pc = "coalesce"
    /\ next < Len(rawClauses)
    /\ LET trimmed == Trim(rawClauses[next + 1])
       IN  /\ trimmed # <<>>
           /\ Substantial(Extended(buffer, trimmed))
           /\ clauses' = Append(clauses, Extended(buffer, trimmed))
    /\ buffer' = <<>>
    /\ next' = next + 1
    /\ UNCHANGED <<pc, text, normalized, rawClauses>>
    /\ UNCHANGED diffVars
    /\ UNCHANGED appVars
    /\ UNCHANGED renderVars

AppendsRemainderNever(cl, buf) == FALSE

AppendsRemainderAlways(cl, buf) == Len(cl) > 0

\* The condition of the if at line 588.
AppendsRemainder(cl, buf) == Len(cl) > 0 /\ Len(buf) < ShortRemainder

\* lines 587-590, 598
ReturnWithAppendedRemainder ==
    /\ pc = "coalesce"
    /\ next = Len(rawClauses)
    /\ Trim(buffer) # <<>>
    /\ AppendsRemainder(clauses, buffer)
    /\ clauses' = [clauses EXCEPT ![Len(clauses)] = @ \o <<"\n", "\n">> \o buffer]
    /\ pc' = "clauses"
    /\ UNCHANGED <<text, normalized, rawClauses, buffer, next>>
    /\ UNCHANGED diffVars
    /\ UNCHANGED appVars
    /\ UNCHANGED renderVars

ReturnWithoutLastClause ==
    /\ pc = "coalesce"
    /\ next = Len(rawClauses)
    /\ Trim(buffer) # <<>>
    /\ ~AppendsRemainder(clauses, buffer)
    /\ pc' = "clauses"
    /\ UNCHANGED <<text, normalized, rawClauses, clauses, buffer, next>>
    /\ UNCHANGED diffVars
    /\ UNCHANGED appVars
    /\ UNCHANGED renderVars

\* lines 587, 591-593, 598
ReturnWithLastClause ==
    /\ pc = "coalesce"
    /\ next = Len(rawClauses)
    /\ Trim(buffer) # <<>>
    /\ ~AppendsRemainder(clauses, buffer)
    /\ clauses' = Append(clauses, buffer)
    /\ pc' = "clauses"
    /\ UNCHANGED <<text, normalized, rawClauses, buffer, next>>
    /\ UNCHANGED diffVars
    /\ UNCHANGED appVars
    /\ UNCHANGED renderVars

\* line 587, condition false, 598
ReturnClauses ==
    /\ pc = "coalesce"
    /\ next = Len(rawClauses)
    /\ Trim(buffer) = <<>>
    /\ pc' = "clauses"
    /\ UNCHANGED <<text, normalized, rawClauses, clauses, buffer, next>>
    /\ UNCHANGED diffVars
    /\ UNCHANGED appVars
    /\ UNCHANGED renderVars

SegNext ==
    \/ SplitParagraphs
    \/ SplitEnumerators
    \/ KeepParagraphs
    \/ SplitSentences
    \/ KeepPieces
    \/ CoalesceSkip
    \/ CoalesceKeep
    \/ CoalesceEmit
    \/ ReturnWithAppendedRemainder
    \/ ReturnWithLastClause
    \/ ReturnClauses

SpecSeg == SegInit /\ [][SegNext]_vars

----------------------------------------------------------------------------
(* formatDiffHtml (task pane) and its callers *)

MIN_EQUAL_LENGTH == 10

MaxRenderWords == 3

OverBudgetTokens == 347

\* div.textContent = text; return div.innerHTML
escapeHtml(str) ==
    LET escaped(c) == CASE c = "&" -> <<"&", "a", "m", "p", ";">>
                        [] c = "<" -> <<"&", "l", "t", ";">>
                        [] c = ">" -> <<"&", "g", "t", ";">>
                        [] OTHER -> <<c>>
    IN  Concat([k \in 1..Len(str) |-> escaped(str[k])])

\* <span class="diff-delete">
DeleteSpanOpen ==
    <<"<", "s", "p", "a", "n", " ", "c", "l", "a", "s", "s", "=", "\"",
      "d", "i", "f", "f", "-", "d", "e", "l", "e", "t", "e", "\"", ">">>

\* <span class="diff-insert">
InsertSpanOpen ==
    <<"<", "s", "p", "a", "n", " ", "c", "l", "a", "s", "s", "=", "\"",
      "d", "i", "f", "f", "-", "i", "n", "s", "e", "r", "t", "\"", ">">>

\* </span>
SpanClose == <<"<", "/", "s", "p", "a", "n", ">">>

\* "<em>Diff preview skipped (selection too large).</em>"
SkippedNoticeHtml == <<"<", "e", "m", ">">> \o SkippedNotice \o <<"<", "/", "e", "m", ">">>

\* The export of utils/diff.js: one span per Delete or Insert segment.
formatDiffHtml(res) ==
    IF res.isNull THEN SkippedNoticeHtml
    ELSE LET piece(sg) ==
                 IF sg.type = "equal" THEN escapeHtml(sg.text)
                 ELSE IF sg.type = "delete"
                        THEN DeleteSpanOpen \o escapeHtml(sg.text) \o SpanClose
                        ELSE InsertSpanOpen \o escapeHtml(sg.text) \o SpanClose
         IN  Concat([k \in 1..Len(res.segments) |-> piece(res.segments[k])])

Callers == {"renderPreview", "renderChatMessages"}

\* The guards under which the two callers compute a diff.
ShowsDiff(fn, orig, rev) ==
    IF fn = "renderPreview"
      THEN orig # <<>> /\ rev # <<>>
      ELSE rev # <<>> /\ orig # <<>> /\ Trim(orig) # <<>>

Ampersand == <<"&">>

RenderWords == {Ampersand, Rep("a", MIN_EQUAL_LENGTH - 1), Rep("a", MIN_EQUAL_LENGTH)}

RECURSIVE JoinWords(_)
JoinWords(ws) ==
    IF Len(ws) = 1 THEN ws[1] ELSE ws[1] \o <<" ">> \o JoinWords(Tail(ws))

RenderTexts ==
    {JoinWords(ws) : ws \in UNION {[1..n -> RenderWords] : n \in 1..MaxRenderWords}}

\* A text of OverBudgetTokens tokens.
BigText == [k \in 1..OverBudgetTokens |-> IF k % 2 = 1 THEN "&" ELSE " "]

ScenarioRender ==
    { <<BigText, BigText>>,
      <<<<" ">>, <<"&">>>>,
      <<<<"&", " ">>, <<"&">>>>,
      <<<<" ", "&">>, <<"&">>>>,
      <<<<"&", " ">>, <<"&", " ">>>>,
      <<<<"&", " ">>, <<" ", "&">>>>,
      <<JoinWords(<<Ampersand, Rep("a", MIN_EQUAL_LENGTH - 1), Ampersand, Rep("a", MIN_EQUAL_LENGTH)>>),
        JoinWords(<<Ampersand, Rep("a", MIN_EQUAL_LENGTH - 1), Rep("a", MIN_EQUAL_LENGTH - 1),
                    Rep("a", MIN_EQUAL_LENGTH)>>)>> }

RenderInputs == (RenderTexts \X RenderTexts) \cup ScenarioRender

\* A caller is about to call diffTokens(original, revised) with the default budget.
RenderInit ==
    /\ pc = "diffTokens"
    /\ caller \in Callers
    /\ \E in \in RenderInputs : original = in[1] /\ revised = in[2]
    /\ ShowsDiff(caller, original, revised)
    /\ maxCells = DefaultMaxCells
    /\ left = <<>>
    /\ right = <<>>
    /\ dp = NoTable
    /\ segments = <<>>
    /\ i = 0
    /\ j = 0
    /\ result = Skipped
    /\ text = <<>>
    /\ normalized = <<>>
    /\ rawClauses = <<>>
    /\ clauses = <<>>
    /\ buffer = <<>>
    /\ next = 0
    /\ binding = "unresolved"
    /\ position = 0
    /\ regions = <<>>
    /\ pendingDeletes = <<>>
    /\ pendingInserts = <<>>
    /\ output = <<>>
    /\ AppIdle

\* The name formatDiffHtml is both imported from utils/diff.js (line 4) and
\* declared in the module (line 755); which function a call reaches is left
\* to the build.  Here the call reaches the import.  renderChatMessages calls
\* only with a segment list (line 706).
CallImported ==
    /\ pc = "returned"
    /\ caller \in Callers
    /\ ~(caller = "renderChatMessages" /\ result.isNull)
    /\ binding' = "imported"
    /\ output' = formatDiffHtml(result)
    /\ pc' = "innerHTML"
    /\ UNCHANGED <<caller, position, regions, pendingDeletes, pendingInserts>>
    /\ UNCHANGED diffVars
    /\ UNCHANGED segVars
    /\ UNCHANGED appVars

\* renderPreview passes null to the local function: for (const segment of null)
CallLocalThrows ==
    /\ pc = "returned"
    /\ caller = "renderPreview"
    /\ result.isNull
    /\ binding' = "local"
    /\ pc' = "TypeError"
    /\ UNCHANGED <<caller, position, regions, pendingDeletes, pendingInserts, output>>
    /\ UNCHANGED diffVars
    /\ UNCHANGED segVars
    /\ UNCHANGED appVars

\* lines 758-762: the call reaches the local function with a segment list
CallLocal ==
    /\ pc = "returned"
    /\ caller \in Callers
    /\ ~result.isNull
    /\ binding' = "local"
    /\ regions' = <<>>
    /\ pendingDeletes' = <<>>
    /\ pendingInserts' = <<>>
    /\ position' = 0
    /\ pc' = "formatDiffHtml"
    /\ UNCHANGED <<caller, output>>
    /\ UNCHANGED diffVars
    /\ UNCHANGED segVars
    /\ UNCHANGED appVars

\* renderChatMessages, lines 708-710: suggestionText.textContent = msg.suggestion
ShowSuggestion ==
    /\ pc = "returned"
    /\ caller = "renderChatMessages"
    /\ result.isNull
    /\ output' = revised
    /\ pc' = "textContent"
    /\ UNCHANGED <<caller, binding, position, regions, pendingDeletes, pendingInserts>>
    /\ UNCHANGED diffVars
    /\ UNCHANGED segVars
    /\ UNCHANGED appVars

ChangeRegion(dels, ins) == [type |-> "change", deleted |-> dels, inserted |-> ins]

EqualRegion(str) == [type |-> "equal", text |-> str]

IsSignificantStrict(str) == Len(Trim(str)) > MIN_EQUAL_LENGTH

\* line 767
IsSignificant(str) == Len(Trim(str)) >= MIN_EQUAL_LENGTH

\* The for-of loop has a segment left.
InFold == pc = "formatDiffHtml" /\ position < Len(result.segments)

FoldSignificantNoFlush ==
    /\ InFold
    /\ result.segments[position + 1].type = "equal"
    /\ IsSignificant(result.segments[position + 1].text)
    /\ regions' = Append(regions, EqualRegion(result.segments[position + 1].text))
    /\ position' = position + 1
    /\ UNCHANGED <<pc, caller, binding, output, pendingDeletes, pendingInserts>>
    /\ UNCHANGED diffVars
    /\ UNCHANGED segVars
    /\ UNCHANGED appVars

\* lines 769-776
FoldSignificant ==
    /\ InFold
    /\ result.segments[position + 1].type = "equal"
    /\ IsSignificant(result.segments[position + 1].text)
    /\ regions' =
         Append(IF pendingDeletes # <<>> \/ pendingInserts # <<>>
                  THEN Append(regions, ChangeRegion(pendingDeletes, pendingInserts))
                  ELSE regions,
                EqualRegion(result.segments[position + 1].text))
    /\ pendingDeletes' = <<>>
    /\ pendingInserts' = <<>>
    /\ position' = position + 1
    /\ UNCHANGED <<pc, caller, binding, output>>
    /\ UNCHANGED diffVars
    /\ UNCHANGED segVars
    /\ UNCHANGED appVars

\* lines 777-781
FoldSmall ==
    /\ InFold
    /\ result.segments[position + 1].type = "equal"
    /\ ~IsSignificant(result.segments[position + 1].text)
    /\ pendingDeletes' = pendingDeletes \o result.segments[position + 1].text
    /\ pendingInserts' = pendingInserts \o result.segments[position + 1].text
    /\ position' = position + 1
    /\ UNCHANGED <<pc, caller, binding, output, regions>>
    /\ UNCHANGED diffVars
    /\ UNCHANGED segVars
    /\ UNCHANGED appVars

\* lines 782-783
FoldDelete ==
    /\ InFold
    /\ result.segments[position + 1].type = "delete"
    /\ pendingDeletes' = pendingDeletes \o result.segments[position + 1].text
    /\ position' = position + 1
    /\ UNCHANGED <<pc, caller, binding, output, regions, pendingInserts>>
    /\ UNCHANGED diffVars
    /\ UNCHANGED segVars
    /\ UNCHANGED appVars

\* lines 784-785
FoldInsert ==
    /\ InFold
    /\ result.segments[position + 1].type = "insert"
    /\ pendingInserts' = pendingInserts \o result.segments[position + 1].text
    /\ position' = position + 1
    /\ UNCHANGED <<pc, caller, binding, output, regions, pendingDeletes>>
    /\ UNCHANGED diffVars
    /\ UNCHANGED segVars
    /\ UNCHANGED appVars

FlushRemainingAlwaysEqual(regs, dels, ins) ==
    IF dels # <<>> \/ ins # <<>> THEN Append(regs, EqualRegion(ins)) ELSE regs

FlushRemainingUntrimmed(regs, dels, ins) ==
    IF dels # <<>> \/ ins # <<>>
      THEN IF dels # ins
             THEN Append(regs, ChangeRegion(dels, ins))
             ELSE Append(regs, EqualRegion(ins))
      ELSE regs

\* lines 789-798
FlushRemaining(regs, dels, ins) ==
    IF dels # <<>> \/ ins # <<>>
      THEN IF Trim(dels) # Trim(ins)
             THEN Append(regs, ChangeRegion(dels, ins))
             ELSE Append(regs, EqualRegion(ins))
      ELSE regs

\* lines 800-814
RegionsHtml(regs) ==
    LET piece(region) ==
            IF region.type = "equal" THEN escapeHtml(region.text)
            ELSE (IF region.deleted # <<>> /\ Trim(region.deleted) # <<>>
                    THEN DeleteSpanOpen \o escapeHtml(region.deleted) \o SpanClose
                    ELSE <<>>)
                 \o
                 (IF region.inserted # <<>> /\ Trim(region.inserted) # <<>>
                    THEN InsertSpanOpen \o escapeHtml(region.inserted) \o SpanClose
                    ELSE <<>>)
    IN  Concat([k \in 1..Len(regs) |-> piece(regs[k])])

\* lines 789-814, then the caller's innerHTML assignment
FoldReturn ==
    /\ pc = "formatDiffHtml"
    /\ position = Len(result.segments)
    /\ regions' = FlushRemaining(regions, pendingDeletes, pendingInserts)
    /\ output' = RegionsHtml(regions')
    /\ pc' = "innerHTML"
    /\ UNCHANGED <<caller, binding, position, pendingDeletes, pendingInserts>>
    /\ UNCHANGED diffVars
    /\ UNCHANGED segVars
    /\ UNCHANGED appVars

RenderNext ==
    \/ Tokenize
    \/ ReturnSkipped
    \/ BuildTable
    \/ WalkEqual
    \/ WalkDelete
    \/ WalkInsert
    \/ FlushDelete
    \/ FlushInsert
    \/ ReturnMerged
    \/ CallImported
    \/ CallLocalThrows
    \/ CallLocal
    \/ ShowSuggestion
    \/ FoldSignificant
    \/ FoldSmall
    \/ FoldDelete
    \/ FoldInsert
    \/ FoldReturn

SpecRender == RenderInit /\ [][RenderNext]_vars

----------------------------------------------------------------------------
(* POST /api/review-stream (review server) *)

\* What req.body.text can be: absent, a value that is not a string, a string.
Bodies == {"missing", "nonString", "string"}

StartEvent(total) == [type |-> "start", totalClauses |-> total]

ProgressEvent(index, total) ==
    [type |-> "progress", clauseIndex |-> index, totalClauses |-> total]

IssueEvent(index, number, total) ==
    [type |-> "issue", clauseIndex |-> index, index |-> number, totalClauses |-> total]

CompleteEvent(found, total) ==
    [type |-> "complete", totalIssues |-> found, totalClauses |-> total]

ErrorEvent == [type |-> "error"]

\* How many paragraphs the text of a request has.
MaxStreamParagraphs == 3

\* A paragraph that is a clause of its own, and one that is a short remainder.
StreamParagraphs ==
    { <<"A">> \o Rep("a", MinClauseLength - 2) \o <<".">>,
      Rep("a", ShortRemainder - 1) }

RECURSIVE StreamDocuments(_)
StreamDocuments(n) ==
    IF n = 1 THEN StreamParagraphs
    ELSE {d \o <<"\n", "\n">> \o t : d \in StreamDocuments(n - 1), t \in StreamParagraphs}

\* The texts of the requests: empty, blank (and long enough for the sentence
\* fallback), and documents of one to MaxStreamParagraphs paragraphs, which
\* give no clause up to MaxStreamParagraphs clauses.
StreamTexts ==
    UNION {StreamDocuments(n) : n \in 1..MaxStreamParagraphs}
        \cup {<<>>, Rep(" ", SentenceFallbackLength + 1)}

\* A request has arrived; the headers are flushed and nothing is written yet.
StreamInit ==
    /\ pc = "review-stream"
    /\ body \in Bodies
    /\ IF body = "string" THEN text \in StreamTexts ELSE text = <<>>
    /\ events = <<>>
    /\ clauseIndex = 0
    /\ issueIndex = 0
    /\ llmRequests = 0
    /\ ended = FALSE
    /\ normalized = <<>>
    /\ rawClauses = <<>>
    /\ clauses = <<>>
    /\ buffer = <<>>
    /\ next = 0
    /\ original = <<>>
    /\ revised = <<>>
    /\ maxCells = DefaultMaxCells
    /\ left = <<>>
    /\ right = <<>>
    /\ dp = NoTable
    /\ segments = <<>>
    /\ i = 0
    /\ j = 0
    /\ result = Skipped
    /\ RenderIdle
    /\ PaneIdle

\* The condition of the if at line 731: !text || typeof text !== "string"
InvalidText == ~(body = "string" /\ text # <<>>)

\* lines 731-735
RejectText ==
    /\ pc = "review-stream"
    /\ InvalidText
    /\ events' = Append(events, ErrorEvent)
    /\ ended' = TRUE
    /\ pc' = "ended"
    /\ UNCHANGED <<body, clauseIndex, issueIndex, llmRequests>>
    /\ UNCHANGED diffVars
    /\ UNCHANGED segVars
    /\ UNCHANGED renderVars
    /\ UNCHANGED paneVars

\* line 738: the call of splitIntoClauses(text)
CallSplitIntoClauses ==
    /\ pc = "review-stream"
    /\ ~InvalidText
    /\ pc' = "splitIntoClauses"
    /\ UNCHANGED streamVars
    /\ UNCHANGED diffVars
    /\ UNCHANGED segVars
    /\ UNCHANGED renderVars
    /\ UNCHANGED paneVars

\* lines 742-745: the start event, and the loop variables
WriteStart ==
    /\ pc = "clauses"
    /\ body = "string"
    /\ events' = Append(events, StartEvent(Len(clauses)))
    /\ clauseIndex' = 0
    /\ issueIndex' = 0
    /\ pc' = "for"
    /\ UNCHANGED <<body, llmRequests, ended>>
    /\ UNCHANGED diffVars
    /\ UNCHANGED segVars
    /\ UNCHANGED renderVars
    /\ UNCHANGED paneVars

\* lines 749-762: the progress event, then analyzeClause is awaited
WriteProgress ==
    /\ pc = "for"
    /\ clauseIndex < Len(clauses)
    /\ events' = Append(events, ProgressEvent(clauseIndex, Len(clauses)))
    /\ llmRequests' = llmRequests + 1
    /\ pc' = "analyzeClause"
    /\ UNCHANGED <<body, clauseIndex, issueIndex, ended>>
    /\ UNCHANGED diffVars
    /\ UNCHANGED segVars
    /\ UNCHANGED renderVars
    /\ UNCHANGED paneVars

\* analyzeClause resolved to an issue: lines 764-774, then i++
AnalyzeFindsIssue ==
    /\ pc = "analyzeClause"
    /\ llmRequests' = llmRequests - 1
    /\ events' = Append(events, IssueEvent(clauseIndex, issueIndex, Len(clauses)))
    /\ issueIndex' = issueIndex + 1
    /\ clauseIndex' = clauseIndex + 1
    /\ pc' = "for"
    /\ UNCHANGED <<body, ended>>
    /\ UNCHANGED diffVars
    /\ UNCHANGED segVars
    /\ UNCHANGED renderVars
    /\ UNCHANGED paneVars

\* analyzeClause resolved to null (no content, type "none", unparsable): i++
AnalyzeFindsNothing ==
    /\ pc = "analyzeClause"
    /\ llmRequests' = llmRequests - 1
    /\ clauseIndex' = clauseIndex + 1
    /\ pc' = "for"
    /\ UNCHANGED <<body, events, issueIndex, ended>>
    /\ UNCHANGED diffVars
    /\ UNCHANGED segVars
    /\ UNCHANGED renderVars
    /\ UNCHANGED paneVars

AnalyzeThrowsAndContinues ==
    /\ pc = "analyzeClause"
    /\ llmRequests' = llmRequests - 1
    /\ events' = Append(events, ErrorEvent)
    /\ clauseIndex' = clauseIndex + 1
    /\ pc' = "for"
    /\ UNCHANGED <<body, issueIndex, ended>>
    /\ UNCHANGED diffVars
    /\ UNCHANGED segVars
    /\ UNCHANGED renderVars
    /\ UNCHANGED paneVars

\* analyzeClause rejected (no API key, fetch failed, response not ok):
\* lines 782-787, the catch block and res.end()
AnalyzeThrows ==
    /\ pc = "analyzeClause"
    /\ llmRequests' = llmRequests - 1
    /\ events' = Append(events, ErrorEvent)
    /\ ended' = TRUE
    /\ pc' = "ended"
    /\ UNCHANGED <<body, clauseIndex, issueIndex>>
    /\ UNCHANGED diffVars
    /\ UNCHANGED segVars
    /\ UNCHANGED renderVars
    /\ UNCHANGED paneVars

\* lines 778-779 and 787: the loop is over
WriteComplete ==
    /\ pc = "for"
    /\ ~(clauseIndex < Len(clauses))
    /\ events' = Append(events, CompleteEvent(issueIndex, Len(clauses)))
    /\ ended' = TRUE
    /\ pc' = "ended"
    /\ UNCHANGED <<body, clauseIndex, issueIndex, llmRequests>>
    /\ UNCHANGED diffVars
    /\ UNCHANGED segVars
    /\ UNCHANGED renderVars
    /\ UNCHANGED paneVars

StreamNext ==
    \/ RejectText
    \/ CallSplitIntoClauses
    \/ SplitParagraphs
    \/ SplitEnumerators
    \/ KeepParagraphs
    \/ SplitSentences
    \/ KeepPieces
    \/ CoalesceSkip
    \/ CoalesceKeep
    \/ CoalesceEmit
    \/ ReturnWithAppendedRemainder
    \/ ReturnWithLastClause
    \/ ReturnClauses
    \/ WriteStart
    \/ WriteProgress
    \/ AnalyzeFindsIssue
    \/ AnalyzeFindsNothing
    \/ AnalyzeThrows
    \/ WriteComplete

\* The handler runs on the event loop and every analyzeClause call settles.
SpecStream == StreamInit /\ [][StreamNext]_vars /\ WF_vars(StreamNext)

----------------------------------------------------------------------------
(* handleLiveAnalysis (task pane) *)

\* How many times the "Analyze Contract" handler is invoked.
MaxInvocations == 2

\* How many issue events the invocations together receive.
MaxStreamIssues == 2

Invocations == 1..MaxInvocations

\* The places after state.isAnalyzing = true and before the finally block.
Analyzing == {"enableTrackChanges", "fetch", "read", "applyIssueToDocument"}

\* The invocations that have begun and not finished, the await of the scope
\* text included.
Unfinished == {p \in Invocations : live[p] \notin {"idle", "returned"}}

\* Neither the diff engine nor the clause segmenter has been called.
EngineIdle ==
    /\ original = <<>>
    /\ revised = <<>>
    /\ maxCells = DefaultMaxCells
    /\ left = <<>>
    /\ right = <<>>
    /\ dp = NoTable
    /\ segments = <<>>
    /\ i = 0
    /\ j = 0
    /\ result = Skipped
    /\ text = <<>>
    /\ normalized = <<>>
    /\ rawClauses = <<>>
    /\ clauses = <<>>
    /\ buffer = <<>>
    /\ next = 0

\* The task pane is loaded, the user has set the track-changes toggle, and
\* no invocation has begun.
LiveInit ==
    /\ pc = "taskpane"
    /\ EngineIdle
    /\ RenderIdle
    /\ StreamIdle
    /\ trackChanges \in BOOLEAN
    /\ isAnalyzing = FALSE
    /\ issues = <<>>
    /\ live = [p \in Invocations |-> "idle"]
    /\ overlapped = {}
    /\ clearedBy = [p \in Invocations |-> 0]
    /\ sentBy = [p \in Invocations |-> 0]
    /\ hasEndpoint = FALSE
    /\ isChatLoading = FALSE
    /\ chatMessages = <<>>
    /\ chat = <<>>
    /\ chatInput = <<>>
    /\ chatRequests = <<>>
    /\ confirmations = 0

\* The invocations begin in the order of their numbers.
BeginsNext(p) ==
    /\ live[p] = "idle"
    /\ \A q \in 1..(p - 1) : live[q] # "idle"

Overlap(p) == IF Unfinished = {} THEN overlapped ELSE overlapped \cup {p}

\* line 451: if (state.isAnalyzing) return;
ReturnWhileAnalyzing(p) ==
    /\ BeginsNext(p)
    /\ isAnalyzing
    /\ live' = [live EXCEPT ![p] = "returned"]
    /\ overlapped' = Overlap(p)
    /\ UNCHANGED <<pc, trackChanges, isAnalyzing, issues, clearedBy, sentBy>>
    /\ UNCHANGED <<diffVars, segVars, renderVars, streamVars, chatVars>>

\* lines 451-454: the guard passes and the handler awaits getScopeText
AwaitScopeText(p) ==
    /\ BeginsNext(p)
    /\ ~isAnalyzing
    /\ live' = [live EXCEPT ![p] = "getScopeText"]
    /\ overlapped' = Overlap(p)
    /\ UNCHANGED <<pc, trackChanges, isAnalyzing, issues, clearedBy, sentBy>>
    /\ UNCHANGED <<diffVars, segVars, renderVars, streamVars, chatVars>>

\* lines 454-458: the scope has no text (or getScopeText rejects): the
\* handler returns before it has touched the state
NoScopeText(p) ==
    /\ live[p] = "getScopeText"
    /\ live' = [live EXCEPT ![p] = "returned"]
    /\ UNCHANGED <<pc, trackChanges, isAnalyzing, issues, overlapped, clearedBy, sentBy>>
    /\ UNCHANGED <<diffVars, segVars, renderVars, streamVars, chatVars>>

\* lines 454-498: the scope text arrives; the handler sets isAnalyzing,
\* resets the issues, and awaits enableTrackChanges when the setting is on,
\* else sends the request
ScopeTextArrives(p) ==
    /\ live[p] = "getScopeText"
    /\ isAnalyzing' = TRUE
    /\ issues' = <<>>
    /\ clearedBy' = [clearedBy EXCEPT ![p] = @ + 1]
    /\ live' = [live EXCEPT ![p] = IF trackChanges THEN "enableTrackChanges" ELSE "fetch"]
    /\ sentBy' = [sentBy EXCEPT ![p] = IF trackChanges THEN @ ELSE @ + 1]
    /\ UNCHANGED <<pc, trackChanges, overlapped>>
    /\ UNCHANGED <<diffVars, segVars, renderVars, streamVars, chatVars>>

\* lines 477-498: enableTrackChanges settles (a rejection is caught and
\* logged) and the request is sent
TrackChangesSettles(p) ==
    /\ live[p] = "enableTrackChanges"
    /\ live' = [live EXCEPT ![p] = "fetch"]
    /\ sentBy' = [sentBy EXCEPT ![p] = @ + 1]
    /\ UNCHANGED <<pc, trackChanges, isAnalyzing, issues, overlapped, clearedBy>>
    /\ UNCHANGED <<diffVars, segVars, renderVars, streamVars, chatVars>>

\* lines 490-509: the response is ok and the handler awaits reader.read()
FetchResponds(p) ==
    /\ live[p] = "fetch"
    /\ live' = [live EXCEPT ![p] = "read"]
    /\ UNCHANGED <<pc, trackChanges, isAnalyzing, issues, overlapped, clearedBy, sentBy>>
    /\ UNCHANGED <<diffVars, segVars, renderVars, streamVars, chatVars>>

\* lines 534-547: finally { state.isAnalyzing = false; ... }
Finally(p) ==
    /\ isAnalyzing' = FALSE
    /\ live' = [live EXCEPT ![p] = "returned"]

\* lines 490-502, 531-535: fetch rejects or the response is not ok
FetchFails(p) ==
    /\ live[p] = "fetch"
    /\ Finally(p)
    /\ UNCHANGED <<pc, trackChanges, issues, overlapped, clearedBy, sentBy>>
    /\ UNCHANGED <<diffVars, segVars, renderVars, streamVars, chatVars>>

\* lines 509-523, 556-564: a chunk carries an issue event; handleStreamEvent
\* pushes the issue and awaits applyIssueToDocument.  (start, progress,
\* complete and error events change nothing of the state.)
ReadIssue(p) ==
    /\ live[p] = "read"
    /\ Len(issues) < MaxStreamIssues
    /\ issues' = Append(issues, p)
    /\ live' = [live EXCEPT ![p] = "applyIssueToDocument"]
    /\ UNCHANGED <<pc, trackChanges, isAnalyzing, overlapped, clearedBy, sentBy>>
    /\ UNCHANGED <<diffVars, segVars, renderVars, streamVars, chatVars>>

\* lines 564-569, 521-526, 509: applyIssueToDocument settles (a rejection is
\* caught and logged) and the handler reads on
IssueApplied(p) ==
    /\ live[p] = "applyIssueToDocument"
    /\ live' = [live EXCEPT ![p] = "read"]
    /\ UNCHANGED <<pc, trackChanges, isAnalyzing, issues, overlapped, clearedBy, sentBy>>
    /\ UNCHANGED <<diffVars, segVars, renderVars, streamVars, chatVars>>

\* lines 509-510, 531-535: the stream is done, or reader.read() rejects
ReadEnds(p) ==
    /\ live[p] = "read"
    /\ Finally(p)
    /\ UNCHANGED <<pc, trackChanges, issues, overlapped, clearedBy, sentBy>>
    /\ UNCHANGED <<diffVars, segVars, renderVars, streamVars, chatVars>>

LiveNext ==
    \E p \in Invocations :
        \/ ReturnWhileAnalyzing(p)
        \/ AwaitScopeText(p)
        \/ NoScopeText(p)
        \/ ScopeTextArrives(p)
        \/ TrackChangesSettles(p)
        \/ FetchResponds(p)
        \/ FetchFails(p)
        \/ ReadIssue(p)
        \/ IssueApplied(p)
        \/ ReadEnds(p)

SpecLive == LiveInit /\ [][LiveNext]_vars

----------------------------------------------------------------------------
(* handleSendChat (task pane) *)

\* How many times the send handler is invoked (button, Enter key or quick
\* prompt).
MaxChatInvocations == 3

\* How many times "Apply to Document" is clicked on a suggestion.
MaxConfirmations == 1

ChatInvocations == 1..MaxChatInvocations

\* dom.chatInput.value.trim() at an invocation: empty or a message.
ChatInputs == {"", "Explain this clause"}

\* lines 846-850: the message pushed for the user's input
UserMessage(p) ==
    [role |-> "user", by |-> p, content |-> chatInput[p], suggestion |-> FALSE]

\* lines 874-879, 885-889, 923-934: a message pushed with role "assistant";
\* by is the invocation of handleSendChat that pushed it, 0 for
\* applyChatSuggestion
AssistantMessage(p, content, suggestion) ==
    [role |-> "assistant", by |-> p, content |-> content, suggestion |-> suggestion]

\* chatService, history.map((msg) => ({ role: msg.role, content: msg.content }))
HistoryOf(messages) ==
    [k \in 1..Len(messages) |-> [role |-> messages[k].role, content |-> messages[k].content]]

\* state.chatMessages.slice(0, -1)
SliceLast(messages) == SubSeq(messages, 1, Len(messages) - 1)

\* The task pane is loaded, the endpoint is set or not, and the input the
\* user will have typed at each invocation is chosen.
ChatInit ==
    /\ pc = "taskpane"
    /\ EngineIdle
    /\ RenderIdle
    /\ StreamIdle
    /\ trackChanges = TRUE
    /\ isAnalyzing = FALSE
    /\ issues = <<>>
    /\ live = <<>>
    /\ overlapped = {}
    /\ clearedBy = <<>>
    /\ sentBy = <<>>
    /\ hasEndpoint \in BOOLEAN
    /\ isChatLoading = FALSE
    /\ chatMessages = <<>>
    /\ chat = [p \in ChatInvocations |-> "idle"]
    /\ chatInput \in [ChatInvocations -> ChatInputs]
    /\ chatRequests = <<>>
    /\ confirmations = 0

\* The invocations begin in the order of their numbers.
ChatBeginsNext(p) ==
    /\ chat[p] = "idle"
    /\ \A q \in 1..(p - 1) : chat[q] # "idle"

\* line 843: if (!input || state.isChatLoading) return;
SendChatReturns(p) ==
    /\ ChatBeginsNext(p)
    /\ ~(chatInput[p] # "" /\ ~isChatLoading)
    /\ chat' = [chat EXCEPT ![p] = "returned"]
    /\ UNCHANGED <<pc, hasEndpoint, isChatLoading, chatMessages, chatInput, chatRequests, confirmations>>
    /\ UNCHANGED <<diffVars, segVars, renderVars, streamVars, liveVars>>

\* The send without the isChatLoading test of line 843.
SendChatUnguarded(p) ==
    /\ ChatBeginsNext(p)
    /\ chatInput[p] # ""
    /\ LET pushed == Append(chatMessages, UserMessage(p))
       IN  /\ chatMessages' = pushed
           /\ chatRequests' =
                  IF hasEndpoint
                  THEN Append(chatRequests, [by |-> p, history |-> HistoryOf(SliceLast(pushed))])
                  ELSE chatRequests
    /\ isChatLoading' = TRUE
    /\ chat' = [chat EXCEPT ![p] = "sendChatMessage"]
    /\ UNCHANGED <<pc, hasEndpoint, chatInput, confirmations>>
    /\ UNCHANGED <<diffVars, segVars, renderVars, streamVars, liveVars>>

\* lines 842-869 and chatService 182-209: the user message is pushed,
\* isChatLoading is set, and sendChatMessage is called with the messages
\* before the pushed one; it throws before the fetch when no endpoint is set
SendChat(p) ==
    /\ ChatBeginsNext(p)
    /\ chatInput[p] # ""
    /\ ~isChatLoading
    /\ LET pushed == Append(chatMessages, UserMessage(p))
       IN  /\ chatMessages' = pushed
           /\ chatRequests' =
                  IF hasEndpoint
                  THEN Append(chatRequests, [by |-> p, history |-> HistoryOf(SliceLast(pushed))])
                  ELSE chatRequests
    /\ isChatLoading' = TRUE
    /\ chat' = [chat EXCEPT ![p] = "sendChatMessage"]
    /\ UNCHANGED <<pc, hasEndpoint, chatInput, confirmations>>
    /\ UNCHANGED <<diffVars, segVars, renderVars, streamVars, liveVars>>

\* lines 863-881, 892-895: sendChatMessage resolves; the reply is pushed,
\* with the suggestion if the model gave one, and the finally block runs
ChatReplies(p, suggestion) ==
    /\ chat[p] = "sendChatMessage"
    /\ hasEndpoint
    /\ chatMessages' = Append(chatMessages, AssistantMessage(p, "reply", suggestion))
    /\ isChatLoading' = FALSE
    /\ chat' = [chat EXCEPT ![p] = "returned"]
    /\ UNCHANGED <<pc, hasEndpoint, chatInput, chatRequests, confirmations>>
    /\ UNCHANGED <<diffVars, segVars, renderVars, streamVars, liveVars>>

\* lines 882-895: sendChatMessage rejects (no endpoint, fetch fails, the
\* response is not ok or is not JSON); the error message is pushed and the
\* finally block runs
ChatFails(p) ==
    /\ chat[p] = "sendChatMessage"
    /\ chatMessages' = Append(chatMessages, AssistantMessage(p, "error", FALSE))
    /\ isChatLoading' = FALSE
    /\ chat' = [chat EXCEPT ![p] = "returned"]
    /\ UNCHANGED <<pc, hasEndpoint, chatInput, chatRequests, confirmations>>
    /\ UNCHANGED <<diffVars, segVars, renderVars, streamVars, liveVars>>

\* lines 912-937: applyChatSuggestion, reached from the button of a message
\* with a suggestion, pushes its confirmation or its failure message
ApplyChatSuggestion(outcome) ==
    /\ confirmations < MaxConfirmations
    /\ {k \in 1..Len(chatMessages) : chatMessages[k].suggestion} # {}
    /\ chatMessages' = Append(chatMessages, AssistantMessage(0, outcome, FALSE))
    /\ confirmations' = confirmations + 1
    /\ UNCHANGED <<pc, hasEndpoint, isChatLoading, chat, chatInput, chatRequests>>
    /\ UNCHANGED <<diffVars, segVars, renderVars, streamVars, liveVars>>

\* The promise of a pending sendChatMessage settles.
ChatSettles ==
    \E p \in ChatInvocations :
        \/ \E suggestion \in BOOLEAN : ChatReplies(p, suggestion)
        \/ ChatFails(p)

ChatNext ==
    \/ \E p \in ChatInvocations : SendChatReturns(p)
    \/ \E p \in ChatInvocations : SendChat(p)
    \/ \E p \in ChatInvocations, suggestion \in BOOLEAN : ChatReplies(p, suggestion)
    \/ \E p \in ChatInvocations : ChatFails(p)
    \/ \E outcome \in {"applied", "failed"} : ApplyChatSuggestion(outcome)

\* Every call of sendChatMessage settles: the fetch resolves or rejects.
SpecChat == ChatInit /\ [][ChatNext]_vars /\ WF_vars(ChatSettles)

----------------------------------------------------------------------------
(* Properties of the diff engine *)

Returned == pc = "returned"

\* The texts of the segments whose type is in kinds, concatenated in order.
TextOf(segs, kinds) ==
    Concat([k \in 1..Len(SelectSeq(segs, LAMBDA sg : sg.type \in kinds)) |->
                SelectSeq(segs, LAMBDA sg : sg.type \in kinds)[k].text])

TypesOf(segs) == {segs[k].type : k \in 1..Len(segs)}

UnderBudget == Len(tokenize(original)) * Len(tokenize(revised)) <= maxCells

\* C1: when the token-count product does not exceed maxCells, the returned
\* segment list reconstructs both inputs: its Delete and Equal texts
\* concatenated give original, its Insert and Equal texts give revised.
C1_DiffReconstruction ==
    (Returned /\ UnderBudget) =>
        /\ ~result.isNull
        /\ TextOf(result.segments, {"delete", "equal"}) = original
        /\ TextOf(result.segments, {"insert", "equal"}) = revised

C1_Witness ==
    /\ Returned
    /\ UnderBudget
    /\ TypesOf(result.segments) = {"equal", "delete", "insert"}
    /\ Len(result.segments) >= 4

\* C2: the tokens of tokenize(s) concatenated in order give exactly s, for
\* every s, the empty string and whitespace-only strings included.
C2_TokenizerRoundTrip ==
    pc # "diffTokens" => Concat(left) = original /\ Concat(right) = revised

C2_Witness ==
    /\ pc = "guards"
    /\ original = <<>> /\ left = <<>>
    /\ revised = <<" ", " ", "a", " ", " ">>
    /\ Len(right) = 3

\* C3: a returned segment list has no two consecutive segments of one kind.
C3_NoAdjacentSameKind ==
    (Returned /\ ~result.isNull) =>
        \A k \in 1..(Len(result.segments) - 1) :
            result.segments[k].type # result.segments[k + 1].type

C3_Witness ==
    /\ Returned
    /\ ~result.isNull
    /\ Len(result.segments) >= 2
    /\ Len(segments) > Len(result.segments)

C5_Idempotence ==
    (Returned /\ UnderBudget /\ original = revised) =>
        /\ ~result.isNull
        /\ (original = <<>> => result.segments = <<>>)
        /\ (original # <<>> =>
                /\ TypesOf(result.segments) = {"equal"}
                /\ TextOf(result.segments, {"equal"}) = original)

C5_Witness ==
    /\ Returned
    /\ UnderBudget
    /\ original = revised
    /\ Len(left) = 3
    /\ result.segments = <<Seg("equal", original)>>

\* C6: two empty inputs give the empty segment list, not the sentinel; with
\* exactly one input empty the result is one segment, Insert (original
\* empty) or Delete (revised empty), whose text is the whole other input.
C6_EmptyInputs ==
    Returned =>
        /\ (original = <<>> /\ revised = <<>> => result = SegmentList(<<>>))
        /\ (original = <<>> /\ revised # <<>> =>
                result = SegmentList(<<Seg("insert", revised)>>))
        /\ (original # <<>> /\ revised = <<>> =>
                result = SegmentList(<<Seg("delete", original)>>))

C6_Witness ==
    /\ Returned
    /\ original = <<>>
    /\ Len(right) = 3
    /\ maxCells = 0
    /\ result = SegmentList(<<Seg("insert", revised)>>)

\* revised is original with the word w and the whitespace s inserted after
\* the whitespace token k of original, which separates two words of original.
WordInsertedAfter(k) ==
    /\ 1 < k /\ k < Len(left)
    /\ IsSpace(left[k][1])
    /\ Len(right) = Len(left) + 2
    /\ ~IsSpace(right[k + 1][1])
    /\ IsSpace(right[k + 2][1])
    /\ right = SubSeq(left, 1, k) \o <<right[k + 1], right[k + 2]>>
                  \o SubSeq(left, k + 1, Len(left))

InsertedAlone(k) ==
    /\ ~result.isNull
    /\ "delete" \notin TypesOf(result.segments)
    /\ Len(SelectSeq(result.segments, LAMBDA sg : sg.type = "insert")) = 1
    /\ TextOf(result.segments, {"insert"}) = right[k + 1] \o right[k + 2]

\* C7 as stated: whenever revised is original with one extra word inserted
\* between two existing words, the result has no Delete segment and exactly
\* one Insert segment, whose text is the inserted word followed by its
\* separating whitespace.
C7_AsStated ==
    (Returned /\ UnderBudget) =>
        \A k \in 1..Len(left) : WordInsertedAfter(k) => InsertedAlone(k)

\* C7, amended: the same, provided the inserted word differs from the word
\* that follows it; the rest of the text is then in Equal segments around
\* the Insert segment.
C7_WordInsertion ==
    (Returned /\ UnderBudget) =>
        \A k \in 1..Len(left) :
            (WordInsertedAfter(k) /\ right[k + 1] # left[k + 1]) =>
                /\ InsertedAlone(k)
                /\ result.segments =
                       << Seg("equal", Concat(SubSeq(left, 1, k))),
                          Seg("insert", right[k + 1] \o right[k + 2]),
                          Seg("equal", Concat(SubSeq(left, k + 1, Len(left)))) >>

C7_Witness ==
    /\ Returned
    /\ original = ScenarioOriginal
    /\ revised = ScenarioRevised
    /\ WordInsertedAfter(6)
    /\ Len(result.segments) = 3
    /\ result.segments[2] = Seg("insert", <<"v", "e", "r", "y", " ">>)

\* C15: every token is non-empty and of one class, all whitespace or all
\* non-whitespace, and consecutive tokens alternate between the classes; the
\* empty string has no token.
TokensAlternate(ts) ==
    /\ \A k \in 1..Len(ts) :
          /\ ts[k] # <<>>
          /\ \A p \in 1..Len(ts[k]) : IsSpace(ts[k][p]) = IsSpace(ts[k][1])
    /\ \A k \in 1..(Len(ts) - 1) : IsSpace(ts[k][1]) # IsSpace(ts[k + 1][1])

C15_TokenClasses ==
    pc # "diffTokens" =>
        /\ TokensAlternate(left)
        /\ TokensAlternate(right)
        /\ (original = <<>> => left = <<>>)
        /\ (revised = <<>> => right = <<>>)

C15_Witness ==
    /\ pc = "guards"
    /\ original = <<>> /\ left = <<>>
    /\ revised = <<"a", "b", " ", " ", "a">>
    /\ right = << <<"a", "b">>, <<" ", " ">>, <<"a">> >>

SegmentsBuilt == pc = "walk" \/ (Returned /\ ~result.isNull)

\* C16 as stated: the Delete segments alone concatenate to original (and
\* the Insert and Equal segments to revised).
C16_AsStated ==
    (Returned /\ UnderBudget) =>
        /\ TextOf(result.segments, {"delete"}) = original
        /\ TextOf(result.segments, {"insert", "equal"}) = revised

\* C16, amended: the Delete and Equal segments concatenated in order equal
\* original, and the Insert and Equal segments concatenated in emission order
\* equal revised; during the walk the segments emitted so far cover exactly
\* the tokens consumed on each side.
C16_EmissionOrder ==
    /\ SegmentsBuilt =>
          /\ TextOf(segments, {"delete", "equal"}) = Concat(SubSeq(left, 1, i))
          /\ TextOf(segments, {"insert", "equal"}) = Concat(SubSeq(right, 1, j))
    /\ (Returned /\ UnderBudget) =>
          /\ i = Len(left) /\ j = Len(right)
          /\ TextOf(result.segments, {"delete", "equal"}) = original
          /\ TextOf(result.segments, {"insert", "equal"}) = revised

C16_Witness ==
    /\ Returned
    /\ UnderBudget
    /\ TypesOf(result.segments) = {"equal", "delete", "insert"}
    /\ Len(segments) > Len(result.segments)
    /\ TextOf(result.segments, {"delete"}) # original

\* The length of a longest common subsequence of two token sequences.
RECURSIVE LcsLength(_, _)
LcsLength(l, r) ==
    IF l = <<>> \/ r = <<>> THEN 0
    ELSE IF Head(l) = Head(r) THEN 1 + LcsLength(Tail(l), Tail(r))
    ELSE Max(LcsLength(Tail(l), r), LcsLength(l, Tail(r)))

\* The LCS length of what is left of both sides from 0-based positions row, col.
LcsFrom(row, col) ==
    LcsLength(SubSeq(left, row + 1, Len(left)), SubSeq(right, col + 1, Len(right)))

\* C17: where the current left and right tokens differ, the walk emits a
\* Delete of the left token when skipping the left token leaves an LCS at
\* least as long as skipping the right one (ties go to Delete), and an Insert
\* of the right token only when skipping the right token leaves a strictly
\* longer one; the step is determined by the two inputs.
C17_TieBreak ==
    [][ (pc = "walk" /\ i < Len(left) /\ j < Len(right) /\ left[i + 1] # right[j + 1]) =>
            IF LcsFrom(i + 1, j) >= LcsFrom(i, j + 1)
              THEN /\ segments' = Append(segments, Seg("delete", left[i + 1]))
                   /\ i' = i + 1 /\ j' = j
              ELSE /\ segments' = Append(segments, Seg("insert", right[j + 1]))
                   /\ i' = i /\ j' = j + 1 ]_vars

\* a Delete has just been emitted on a tie
C17_Witness ==
    /\ pc = "walk"
    /\ i >= 1 /\ j < Len(right)
    /\ segments # <<>>
    /\ segments[Len(segments)] = Seg("delete", left[i])
    /\ left[i] # right[j + 1]
    /\ LcsFrom(i, j) = LcsFrom(i - 1, j + 1)
    /\ LcsFrom(i, j) >= 1

CountOf(segs, kind) == Len(SelectSeq(segs, LAMBDA sg : sg.type = kind))

\* C18: the edit script is minimal: the Equal segments cover as many tokens
\* as a longest common subsequence of the two token sequences has, so the
\* deleted and inserted tokens are as few as any alignment allows.
C18_MinimalScript ==
    (Returned /\ ~result.isNull) =>
        /\ CountOf(segments, "equal") = LcsLength(left, right)
        /\ CountOf(segments, "delete") = Len(left) - LcsLength(left, right)
        /\ CountOf(segments, "insert") = Len(right) - LcsLength(left, right)

C18_Witness ==
    /\ Returned
    /\ ~result.isNull
    /\ LcsLength(left, right) = 2
    /\ CountOf(segments, "delete") = 1
    /\ CountOf(segments, "insert") = 3
    /\ segments[1].type # "equal"

----------------------------------------------------------------------------
(* Properties of formatDiff *)

Formatted == pc = "formatDiff"

\* The bracket form of a segment list, built segment by segment from the front.
RECURSIVE Bracketed(_)
Bracketed(segs) ==
    IF segs = <<>> THEN <<>>
    ELSE LET sg == Head(segs)
             open == CASE sg.type = "equal" -> <<>>
                       [] sg.type = "delete" -> <<"[", "-">>
                       [] sg.type = "insert" -> <<"[", "+">>
             close == CASE sg.type = "equal" -> <<>>
                        [] sg.type = "delete" -> <<"-", "]">>
                        [] sg.type = "insert" -> <<"+", "]">>
         IN  open \o sg.text \o close \o Bracketed(Tail(segs))

\* C14: formatDiff gives the fixed placeholder for the skipped result, the
\* empty string for the empty segment list, and otherwise each segment's
\* text in order, Equal literal, Delete inside [- -], Insert inside [+ +].
C14_PlainRendering ==
    Formatted =>
        /\ result.isNull => output = SkippedNotice
        /\ (~result.isNull /\ result.segments = <<>>) => output = <<>>
        /\ ~result.isNull =>
              /\ output = Bracketed(result.segments)
              /\ Len(output) = Len(TextOf(result.segments, {"equal", "delete", "insert"}))
                                  + 4 * (CountOf(result.segments, "delete")
                                           + CountOf(result.segments, "insert"))

C14_Witness ==
    /\ Formatted
    /\ ~result.isNull
    /\ TypesOf(result.segments) = {"equal", "delete", "insert"}
    /\ output = <<"a", " ", "[", "-", "b", "-", "]", "[", "+", "a", "+", "]">>

C14_WitnessSkipped ==
    /\ Formatted
    /\ result.isNull
    /\ output = SkippedNotice
    /\ Len(output) = 43

C14_WitnessEmpty ==
    /\ Formatted
    /\ ~result.isNull
    /\ result.segments = <<>>
    /\ output = <<>>

----------------------------------------------------------------------------
(* Properties of the clause segmenter *)

ClausesReturned == pc = "clauses"

\* s with every whitespace character removed
Solid(s) == SelectSeq(s, LAMBDA c : ~IsSpace(c))

\* C8: for a non-empty document the returned clauses, in order, hold all the
\* non-whitespace characters of the document in their order: the document
\* and the concatenated clauses are equal once whitespace is removed.
C8_SegmenterCoverage ==
    (ClausesReturned /\ text # <<>>) => Solid(Concat(clauses)) = Solid(text)

C8_Witness ==
    /\ ClausesReturned
    /\ Len(clauses) = 2
    /\ Includes(text, "\r")
    /\ Len(Solid(text)) > MinClauseLength

\* The document is two non-blank paragraphs separated by a blank line, the
\* first shorter than MinClauseLength, the two together not.
TwoShortLongParagraphs ==
    LET paras == SplitBlankLines(normalized)
    IN  /\ Len(paras) = 2
        /\ Trim(paras[1]) # <<>>
        /\ Trim(paras[2]) # <<>>
        /\ Len(Trim(paras[1])) < MinClauseLength
        /\ Len(Extended(Trim(paras[1]), Trim(paras[2]))) >= MinClauseLength

\* C9: when more than one clause is returned, every clause but the last has
\* at least MinClauseLength characters; two blank-line-separated paragraphs
\* that reach MinClauseLength only together come back as one clause.
C9_MinimumClauseSize ==
    ClausesReturned =>
        /\ Len(clauses) > 1 =>
              \A k \in 1..(Len(clauses) - 1) : Len(clauses[k]) >= MinClauseLength
        /\ TwoShortLongParagraphs => Len(clauses) = 1

C9_Witness ==
    /\ ClausesReturned
    /\ Len(clauses) = 2
    /\ Len(clauses[1]) >= MinClauseLength
    /\ Len(clauses[2]) < MinClauseLength

C9_WitnessTwoParagraphs ==
    /\ ClausesReturned
    /\ TwoShortLongParagraphs
    /\ Len(clauses) = 1

\* C10 as stated: every non-empty input string gives at least one clause.
C10_AsStated ==
    (ClausesReturned /\ text # <<>>) => Len(clauses) >= 1

\* C10, amended: every input string that holds a non-whitespace character
\* gives at least one clause, whichever strategy of the cascade fired.
C10_AtLeastOneClause ==
    (ClausesReturned /\ Solid(text) # <<>>) => Len(clauses) >= 1

\* a state in which the sentence fallback produced the pieces
C10_Witness ==
    /\ ClausesReturned
    /\ Len(SplitBlankLines(normalized)) <= 1
    /\ Len(SplitEnumeratorLines(normalized)) <= 1
    /\ Len(normalized) > SentenceFallbackLength
    /\ Len(rawClauses) = 2
    /\ Len(clauses) >= 1

\* the input is non-empty and holds whitespace only
WhitespaceOnly(s) == s # <<>> /\ Solid(s) = <<>>

\* C11: an empty input, or one of whitespace only (of any length, also
\* beyond SentenceFallbackLength), gives the empty clause list.
C11_BlankInput ==
    (ClausesReturned /\ Solid(text) = <<>>) => clauses = <<>>

\* more than SentenceFallbackLength blanks: the sentence fallback fired
C11_Witness ==
    /\ ClausesReturned
    /\ WhitespaceOnly(text)
    /\ Len(text) > SentenceFallbackLength
    /\ Len(rawClauses) = 1
    /\ Len(rawClauses[1]) = Len(text)
    /\ clauses = <<>>

\* a blank line only: the paragraph split gives two empty pieces
C11_WitnessBlankLine ==
    /\ ClausesReturned
    /\ text = <<"\n", "\n">>
    /\ rawClauses = << <<>>, <<>> >>
    /\ clauses = <<>>

----------------------------------------------------------------------------
(* Properties of formatDiffHtml *)

\* The local formatDiffHtml has returned to its caller.
RegionsRendered == pc = "innerHTML" /\ binding = "local"

RegionTypes == [k \in 1..Len(regions) |-> regions[k].type]

\* original and revised have the same tokens but for the word at index k, and
\* the text before and the text after it are significant.
OneWordChangedAt(k) ==
    /\ Len(left) = Len(right)
    /\ k \in 2..(Len(left) - 1)
    /\ ~IsSpace(left[k][1]) /\ ~IsSpace(right[k][1])
    /\ \A m \in 1..Len(left) : (left[m] = right[m]) <=> (m # k)
    /\ Len(Trim(Concat(SubSeq(left, 1, k - 1)))) >= 10
    /\ Len(Trim(Concat(SubSeq(left, k + 1, Len(left))))) >= 10

C12_WitnessLongContext ==
    /\ RegionsRendered
    /\ OneWordChangedAt(5)
    /\ Len(left) = 7
    /\ Len(left[1]) = 1
    /\ RegionTypes = <<"equal", "change", "equal">>

\* C13: given the skipped result of diffTokens, the region-merged renderer
\* returns the fixed notice and does not fail, on every path that passes a
\* diffTokens result to it, renderPreview included.
C13_SkippedNotice ==
    (binding = "local" /\ result.isNull /\ pc \notin {"diffTokens", "guards", "returned"}) =>
        /\ pc # "TypeError"
        /\ output = SkippedNoticeHtml

C19_WitnessBelowThreshold ==
    /\ pc = "formatDiffHtml"
    /\ position >= 2
    /\ result.segments[position].type = "equal"
    /\ Len(Trim(result.segments[position].text)) = 9
    /\ Len(result.segments[position].text) = 11
    /\ regions = <<>>
    /\ Len(pendingDeletes) > 11
    /\ pendingDeletes # pendingInserts

\* C20: at the end of the fold non-empty accumulators are flushed as one
\* last region, a Change region when their trimmed texts differ and an Equal
\* region (of the pending inserted text) when they agree after trimming;
\* empty accumulators add no region.
C20_FinalFlush ==
    [][ (pc = "formatDiffHtml" /\ position = Len(result.segments)) =>
            IF pendingDeletes = <<>> /\ pendingInserts = <<>>
              THEN regions' = regions
              ELSE /\ Len(regions') = Len(regions) + 1
                   /\ SubSeq(regions', 1, Len(regions)) = regions
                   /\ regions'[Len(regions')] =
                        IF Trim(pendingDeletes) # Trim(pendingInserts)
                          THEN [type |-> "change", deleted |-> pendingDeletes,
                                inserted |-> pendingInserts]
                          ELSE [type |-> "equal", text |-> pendingInserts] ]_vars

\* the accumulators differ only in surrounding whitespace: one Equal region
C20_Witness ==
    /\ RegionsRendered
    /\ pendingDeletes # pendingInserts
    /\ Trim(pendingDeletes) = Trim(pendingInserts)
    /\ regions = <<EqualRegion(pendingInserts)>>

C20_WitnessChange ==
    /\ RegionsRendered
    /\ Len(regions) = 2
    /\ regions[1].type = "equal"
    /\ regions[2] = ChangeRegion(pendingDeletes, pendingInserts)
    /\ Trim(pendingDeletes) # Trim(pendingInserts)

C20_WitnessNothingPending ==
    /\ RegionsRendered
    /\ pendingDeletes = <<>> /\ pendingInserts = <<>>
    /\ Len(regions) = 3
    /\ regions[3].type = "equal"

HasChange(segs) == \E k \in 1..Len(segs) : segs[k].type \in {"delete", "insert"}

HasChangeRegion == \E k \in 1..Len(regions) : regions[k].type = "change"

\* The index of the last significant Equal segment of the result, 0 without one.
LastSignificant ==
    LET sig == {k \in 1..Len(result.segments) :
                    /\ result.segments[k].type = "equal"
                    /\ Len(Trim(result.segments[k].text)) >= 10}
    IN  IF sig = {} THEN 0 ELSE 0 - SetMin({0 - k : k \in sig})

\* The segments folded into the accumulators that the final flush sees.
PendingSegments == SubSeq(result.segments, LastSignificant + 1, Len(result.segments))

\* C21 as stated: a final flush that emits an Equal region had no Delete or
\* Insert segment in its accumulators, and every result with a Delete or an
\* Insert segment yields at least one Change region.
C21_AsStated ==
    RegionsRendered =>
        /\ (pendingDeletes # <<>> /\ Trim(pendingDeletes) = Trim(pendingInserts))
              => ~HasChange(PendingSegments)
        /\ HasChange(result.segments) => HasChangeRegion

\* C21, amended: a final flush that emits an Equal region saw accumulators
\* that agree after trimming, to which Delete or Insert segments may have
\* contributed; a result with a Delete or an Insert segment yields a Change
\* region unless all its Delete and Insert segments come after the last
\* significant Equal segment and their accumulators agree after trimming.
C21_EqualFlush ==
    RegionsRendered =>
        /\ pendingDeletes = TextOf(PendingSegments, {"delete", "equal"})
        /\ pendingInserts = TextOf(PendingSegments, {"insert", "equal"})
        /\ (HasChange(result.segments) /\ ~HasChangeRegion) =>
              /\ ~HasChange(SubSeq(result.segments, 1, LastSignificant))
              /\ HasChange(PendingSegments)
              /\ Trim(pendingDeletes) = Trim(pendingInserts)
              /\ regions[Len(regions)] = EqualRegion(pendingInserts)
        /\ (HasChange(result.segments) /\ Trim(pendingDeletes) # Trim(pendingInserts))
              => regions[Len(regions)].type = "change"

\* a deleted and an inserted word end in one Equal region
C21_Witness ==
    /\ RegionsRendered
    /\ original = <<"&", " ">>
    /\ revised = <<" ", "&">>
    /\ TypesOf(result.segments) = {"delete", "equal", "insert"}
    /\ regions = <<EqualRegion(revised)>>

\* C26: in a returned segment list an Insert segment is never immediately
\* followed by a Delete segment (nor is one in the walk's unmerged list).
C26_DeleteBeforeInsert ==
    /\ \A k \in 1..(Len(segments) - 1) :
          ~(segments[k].type = "insert" /\ segments[k + 1].type = "delete")
    /\ (Returned /\ ~result.isNull) =>
          \A k \in 1..(Len(result.segments) - 1) :
              ~(result.segments[k].type = "insert" /\ result.segments[k + 1].type = "delete")

C26_Witness ==
    /\ Returned
    /\ ~result.isNull
    /\ Len(result.segments) = 5
    /\ [k \in 1..5 |-> result.segments[k].type]
         = <<"delete", "insert", "equal", "delete", "insert">>

----------------------------------------------------------------------------
(* Further properties of the clause segmenter *)

HasPeriod(s) == \E p \in 1..Len(s) : s[p] = "."

\* C22: in the coalescing pass a piece is trimmed, an empty piece changes
\* nothing, a non-empty piece is joined to the buffer by a blank line, and the
\* buffer is emitted and reset at the first piece at which it has length at
\* least 150 and contains a period: before each piece the buffer does not
\* satisfy both conditions, and every clause emitted in the pass does.
C22_CoalesceStep ==
    [][ (pc = "coalesce" /\ next < Len(rawClauses)) =>
            LET piece == Trim(rawClauses[next + 1])
                joined == IF buffer = <<>> THEN piece ELSE buffer \o <<"\n", "\n">> \o piece
            IN  /\ ~(Len(buffer) >= 150 /\ HasPeriod(buffer))
                /\ next' = next + 1
                /\ IF piece = <<>>
                     THEN clauses' = clauses /\ buffer' = buffer
                     ELSE IF Len(joined) >= 150 /\ HasPeriod(joined)
                            THEN clauses' = Append(clauses, joined) /\ buffer' = <<>>
                            ELSE clauses' = clauses /\ buffer' = joined
                /\ \A k \in 1..Len(clauses') :
                      Len(clauses'[k]) >= 150 /\ HasPeriod(clauses'[k]) ]_vars

\* a clause of two pieces has been emitted at its second piece
C22_Witness ==
    /\ pc = "coalesce"
    /\ next = 2
    /\ Len(rawClauses) = 2
    /\ Len(Trim(rawClauses[1])) = 60
    /\ HasPeriod(rawClauses[1])
    /\ clauses = <<Trim(rawClauses[1]) \o <<"\n", "\n">> \o Trim(rawClauses[2])>>
    /\ buffer = <<>>

\* C23: a non-empty buffer left at the end of the pass is appended to the
\* previous clause, joined by a blank line, when it is shorter than 100
\* characters and a clause exists; otherwise it becomes the final clause,
\* also when it is shorter than 100 characters and no clause exists.
C23_Remainder ==
    [][ (pc = "coalesce" /\ next = Len(rawClauses) /\ buffer # <<>>) =>
            IF Len(buffer) < 100 /\ Len(clauses) >= 1
              THEN /\ Len(clauses') = Len(clauses)
                   /\ SubSeq(clauses', 1, Len(clauses) - 1) = SubSeq(clauses, 1, Len(clauses) - 1)
                   /\ clauses'[Len(clauses)] = clauses[Len(clauses)] \o <<"\n", "\n">> \o buffer
              ELSE clauses' = Append(clauses, buffer) ]_vars

\* a remainder of 99 characters has been appended to the only clause
C23_Witness ==
    /\ ClausesReturned
    /\ Len(buffer) = 99
    /\ Len(clauses) = 1
    /\ Len(clauses[1]) = 150 + 2 + 99
    /\ SubSeq(clauses[1], 153, 251) = buffer

\* a remainder of 99 characters is the only clause
C23_WitnessShortAlone ==
    /\ ClausesReturned
    /\ Len(buffer) = 99
    /\ clauses = <<buffer>>

\* a remainder of 100 characters is a clause of its own
C23_WitnessFinalClause ==
    /\ ClausesReturned
    /\ Len(buffer) = 100
    /\ Len(clauses) = 2
    /\ clauses[2] = buffer

\* C24: the cascade is ordered and exclusive.  Fallback 1 replaces the pieces
\* exactly when the blank-line split gave at most one piece; fallback 2
\* replaces them exactly when there is still at most one piece and the
\* normalized document is longer than 500 characters; with two or more
\* blank-line pieces those pieces are the ones coalesced.
C24_Cascade ==
    [][ /\ pc = "fallback1" =>
              /\ rawClauses = SplitBlankLines(normalized)
              /\ rawClauses' = IF Len(rawClauses) <= 1
                                 THEN SplitEnumeratorLines(normalized)
                                 ELSE rawClauses
        /\ pc = "fallback2" =>
              /\ rawClauses' = IF Len(rawClauses) <= 1 /\ Len(normalized) > 500
                                 THEN GroupSentences(SplitSentenceGaps(normalized))
                                 ELSE rawClauses
              /\ Len(SplitBlankLines(normalized)) >= 2 =>
                    rawClauses' = SplitBlankLines(normalized) ]_vars

\* fallback 1 gave two pieces where the blank-line split gave one
C24_Witness ==
    /\ pc = "coalesce"
    /\ Len(normalized) > 500
    /\ Len(SplitBlankLines(normalized)) = 1
    /\ Len(rawClauses) = 2
    /\ rawClauses = SplitEnumeratorLines(normalized)

\* fallback 2 regrouped a document of one piece
C24_WitnessSentences ==
    /\ pc = "coalesce"
    /\ Len(normalized) > 500
    /\ Len(SplitEnumeratorLines(normalized)) = 1
    /\ Len(rawClauses) = 2
    /\ Len(rawClauses[1]) = 400

\* No line feed is followed, after whitespace only, by another line feed.
NoBlankLine(s) ==
    ~\E p \in 1..Len(s) : \E q \in (p + 1)..Len(s) :
        /\ s[p] = "\n" /\ s[q] = "\n"
        /\ \A m \in (p + 1)..(q - 1) : IsSpace(s[m])

\* No line feed is followed by an enumerator or an uppercase letter.
NoEnumeratorLine(s) ==
    ~\E p \in 1..(Len(s) - 1) : s[p] = "\n" /\ EnumeratorAt(s, p + 1)

\* C25: a document with non-whitespace text, shorter than 500 characters,
\* without a blank-line boundary and without a line boundary followed by an
\* enumerator or an uppercase letter, comes back as the single clause that is
\* the trimmed, line-ending-normalized document.
C25_SingleClause ==
    ( /\ ClausesReturned
      /\ Solid(text) # <<>>
      /\ Len(text) < 500
      /\ NoBlankLine(NormalizeLineEndings(text))
      /\ NoEnumeratorLine(NormalizeLineEndings(text)) )
        => clauses = <<Trim(NormalizeLineEndings(text))>>

\* two lines, under 150 characters in all, the first without a period
C25_Witness ==
    /\ ClausesReturned
    /\ Len(text) = 99 + 1 + 99
    /\ text[100] = "\n"
    /\ ~HasPeriod(text)
    /\ clauses = <<text>>

C25_WitnessShort ==
    /\ ClausesReturned
    /\ Len(text) = 60
    /\ clauses = <<text>>

\* C27: every returned clause is non-empty and has no leading or trailing
\* whitespace, and when two or more clauses are returned each of them, the
\* last included, has at least 100 characters.
C27_ClauseLengths ==
    ClausesReturned =>
        /\ \A k \in 1..Len(clauses) :
              /\ clauses[k] # <<>>
              /\ ~IsSpace(clauses[k][1])
              /\ ~IsSpace(clauses[k][Len(clauses[k])])
        /\ Len(clauses) >= 2 => \A k \in 1..Len(clauses) : Len(clauses[k]) >= 100

\* the last of two clauses has exactly 100 characters
C27_Witness ==
    /\ ClausesReturned
    /\ Len(clauses) = 2
    /\ Len(clauses[1]) = 150
    /\ Len(clauses[2]) = 100

----------------------------------------------------------------------------
(* Properties of POST /api/review-stream *)

EventTypes == [k \in 1..Len(events) |-> events[k].type]

EventsOfType(kind) == SelectSeq(events, LAMBDA e : e.type = kind)

Terminal(e) == e.type \in {"complete", "error"}

\* The events written so far are a prefix of a well-formed stream.
WellFormedStream ==
    /\ \A k \in 1..Len(events) :
          /\ events[k].type = "start" =>
                k = 1 /\ events[k].totalClauses = Len(clauses)
          /\ events[k].type = "progress" =>
                /\ k > 1
                /\ events[k].clauseIndex = Len(SelectSeq(SubSeq(events, 1, k - 1),
                                                         LAMBDA e : e.type = "progress"))
                /\ events[k].clauseIndex < Len(clauses)
          /\ events[k].type = "issue" =>
                /\ k > 1
                /\ events[k - 1].type = "progress"
                /\ events[k - 1].clauseIndex = events[k].clauseIndex
                /\ events[k].index = Len(SelectSeq(SubSeq(events, 1, k - 1),
                                                   LAMBDA e : e.type = "issue"))
          /\ Terminal(events[k]) => k = Len(events) /\ ended
          /\ events[k].type = "complete" =>
                /\ k > 1
                /\ Len(EventsOfType("progress")) = Len(clauses)
                /\ events[k].totalIssues = Len(EventsOfType("issue"))
          /\ (events[k].type = "error" /\ k > 1) => events[k - 1].type = "progress"
    /\ events # <<>> =>
          IF InvalidText THEN events = <<ErrorEvent>> ELSE events[1].type = "start"
    /\ llmRequests \in {0, 1}
    /\ llmRequests = 1 => events[Len(events)].type = "progress"
    /\ ended <=> (events # <<>> /\ Terminal(events[Len(events)]))

\* C28: the stream is one start event, then per clause in order a progress
\* event followed by at most one issue event for that clause, one request to
\* the model at a time, then one terminal event (complete after the last
\* clause, error at the first failing clause) after which nothing is written;
\* without a usable text the stream is a single error event; and the
\* terminal event is always reached.
C28_EventSequence ==
    /\ []WellFormedStream
    /\ [][ended => events' = events]_vars
    /\ <>ended

C28_Witness ==
    /\ ended
    /\ Len(clauses) = 2
    /\ EventTypes = <<"start", "progress", "issue", "progress", "complete">>
    /\ events[5].totalIssues = 1

C28_WitnessError ==
    /\ ended
    /\ Len(clauses) = 2
    /\ EventTypes = <<"start", "progress", "issue", "progress", "error">>

C28_WitnessMissingText ==
    /\ ended
    /\ body = "missing"
    /\ events = <<ErrorEvent>>

----------------------------------------------------------------------------
(* Properties of handleLiveAnalysis *)

\* C29: at most one live analysis is in progress; an invocation that began
\* before an earlier one had finished (the await of the scope text included)
\* neither resets state.issues nor sends a request; and state.isAnalyzing is
\* false once every invocation has finished.
C29_SingleAnalysis ==
    /\ Cardinality({p \in Invocations : live[p] \in Analyzing}) <= 1
    /\ \A p \in overlapped : clearedBy[p] = 0 /\ sentBy[p] = 0
    /\ Unfinished = {} => ~isAnalyzing

----------------------------------------------------------------------------
(* Properties of handleSendChat *)

\* The positions in state.chatMessages of the messages with the given role
\* pushed by invocation p.
PositionsOf(kind, p) ==
    {k \in 1..Len(chatMessages) : chatMessages[k].role = kind /\ chatMessages[k].by = p}

Asked(p) == PositionsOf("user", p) # {}

Answered(p) == PositionsOf("assistant", p) # {}

UserMessages == {k \in 1..Len(chatMessages) : chatMessages[k].role = "user"}

\* Invocation p has pushed at most one user message and at most one
\* assistant message, the assistant message after the user message, and
\* exactly one of each once it has returned from a send.
OneAnswer(p) ==
    /\ Cardinality(PositionsOf("user", p)) <= 1
    /\ Cardinality(PositionsOf("assistant", p)) <= 1
    /\ \A a \in PositionsOf("assistant", p) : \E u \in PositionsOf("user", p) : u < a
    /\ (chat[p] = "returned" /\ Asked(p)) => Answered(p)
    /\ chat[p] = "sendChatMessage" <=> (Asked(p) /\ ~Answered(p))

\* The history of a request is the messages before the user message of the
\* invocation that sent it, as role and content.
HistoryPrecedes(request) ==
    \E u \in PositionsOf("user", request.by) :
        request.history = HistoryOf(SubSeq(chatMessages, 1, u - 1))

ChatWellFormed ==
    /\ \A p \in ChatInvocations : OneAnswer(p)
    /\ \A k \in 1..Len(chatRequests) : HistoryPrecedes(chatRequests[k])
    /\ isChatLoading <=> (\E p \in ChatInvocations : chat[p] = "sendChatMessage")

\* C30: while isChatLoading is true no user message is pushed and no request
\* is sent, and an invocation that returns at the guard changes nothing;
\* every user message is followed by exactly one assistant message of the
\* same invocation, pushed in a step that leaves isChatLoading false, and
\* that message always comes; the history of a request is the messages
\* before the invocation's user message.
C30_ChatFlow ==
    /\ []ChatWellFormed
    /\ [][isChatLoading => (UserMessages' = UserMessages /\ chatRequests' = chatRequests)]_vars
    /\ [][\A p \in ChatInvocations : (~Answered(p) /\ Answered(p)') => ~isChatLoading']_vars
    /\ \A p \in ChatInvocations : Asked(p) ~> (Answered(p) /\ chat[p] = "returned")

\* Invocation 1 got a reply, invocation 2 came with an input while 1 was
\* loading and pushed nothing, invocation 3 sent the two earlier messages as
\* history and got the error message.
C30_Witness ==
    /\ hasEndpoint
    /\ chat = [p \in ChatInvocations |-> "returned"]
    /\ chatInput[2] # ""
    /\ Len(chatMessages) = 4
    /\ [k \in 1..4 |-> chatMessages[k].by] = <<1, 1, 3, 3>>
    /\ chatMessages[2].content = "reply"
    /\ chatMessages[4].content = "error"
    /\ Len(chatRequests) = 2
    /\ Len(chatRequests[2].history) = 2
    /\ ~isChatLoading

\* A confirmation of applyChatSuggestion lies between the user message of
\* invocation 3 and its reply.
C30_WitnessInterleaved ==
    /\ Len(chatMessages) = 5
    /\ [k \in 1..5 |-> chatMessages[k].by] = <<1, 1, 3, 0, 3>>
    /\ ~isChatLoading

====
